---- MODULE Spec2Model ----
(***************************************************************************)
(* State-transformation tables of the N-Gram catalogue (package sgrams).   *)
(*                                                                         *)
(* A session creates one entry with a family's factory, builds a           *)
(* StateTransformer and a FractionPatternAnalyzer over it, and then calls  *)
(* their operations.  A Python dict is modelled as the sequence of its     *)
(* items [k |-> key, v |-> value] in insertion order; an optional value    *)
(* (None or a value) as a sequence of length 0 or 1; a call's outcome as   *)
(* [err |-> message, val |-> optional value], err = "" meaning a normal    *)
(* return.                                                                 *)
(***************************************************************************)
EXTENDS Integers, Sequences, FiniteSets, TLC

VARIABLES
    pc,             \* position of the session
    sgram,          \* the entry the factory returned
    state_map,      \* StateTransformer._state_map
    patterns,       \* FractionPatternAnalyzer.patterns
    pattern,        \* the caller's label argument (None when not given)
    current_state,  \* the caller's current state value: << >> or <<state>>
    call,           \* the last operation called, with its arguments
    result,         \* what it left: the value it returned, if any
    error           \* the message of the error it raised, "" when none

vars == <<pc, sgram, state_map, patterns, pattern, current_state, call, result, error>>

----------------------------------------------------------------------------
\* Bounds of the exploration.

\* trace_path is called with 0..MaxSteps steps.
MaxSteps == 6
\* The generated families are created for indices 0..MaxIndex*, and for some
\* indices outside their domains.
MaxIndex1st == 3
MaxIndex3rd == 2
MaxIndex2D == 5
MaxIndex3D == 6
\* compute_value is called with arguments 0..MaxN, and with some further ones.
MaxN == 6
\* CrossSGramAnalyzer is built over lists of up to MaxSGrams entries.
MaxSGrams == 3
\* FlipTransform is applied to patterns of up to MaxFlipLen values, and
\* cluster_by_symmetry to lists of up to MaxFlipPatterns patterns.
MaxFlipLen == 3
MaxFlipPatterns == 2

----------------------------------------------------------------------------
\* Python values.

\* None, as a label argument that was not given.
None == "None"

\* return value / raise ValueError(message)
Return(x) == [err |-> "", val |-> <<x>>]
Raise(message) == [err |-> message, val |-> << >>]

\* dict: key in d
dict_has(d, key) == \E i \in 1..Len(d) : d[i].k = key

\* dict: d.get(key), << >> standing for None
dict_get(d, key) ==
    IF dict_has(d, key)
    THEN << d[CHOOSE i \in 1..Len(d) : d[i].k = key].v >>
    ELSE << >>

\* dict: list(d.keys())
dict_keys(d) == [i \in 1..Len(d) |-> d[i].k]

\* dict: d[key] = value; a key already present keeps its position
dict_set(d, key, value) ==
    IF dict_has(d, key)
    THEN [i \in 1..Len(d) |-> IF d[i].k = key THEN [k |-> key, v |-> value] ELSE d[i]]
    ELSE Append(d, [k |-> key, v |-> value])

\* dict: d.update(e)
RECURSIVE dict_update(_, _)
dict_update(d, e) ==
    IF e = << >> THEN d
    ELSE dict_update(dict_set(d, e[1].k, e[1].v), Tail(e))

\* value in sequence
contains(sequence, value) == \E i \in 1..Len(sequence) : sequence[i] = value

\* sequence.index(value): the 0-based position of the first match
index_of(sequence, value) ==
    (CHOOSE i \in 1..Len(sequence) :
        sequence[i] = value /\ \A j \in 1..(i - 1) : sequence[j] # value) - 1

\* sequence[i] for a 0-based i
item(sequence, i) == sequence[i + 1]

\* sequence[i] for any integer i: a negative i counts from the end, and an i
\* outside -len..len-1 raises IndexError
getitem(sequence, i) ==
    IF i >= Len(sequence) \/ i < -Len(sequence)
    THEN Raise("list index out of range")
    ELSE IF i < 0 THEN Return(sequence[Len(sequence) + i + 1])
    ELSE Return(sequence[i + 1])

\* list(range(start, stop, step)) for step > 0
range(start, stop, step) ==
    [i \in 1..(IF stop > start THEN (stop - start + step - 1) \div step ELSE 0)
        |-> start + (i - 1) * step]

\* set(sequence)
set_of(sequence) == {sequence[i] : i \in 1..Len(sequence)}

\* sorted(S) for a set of integers
RECURSIVE sorted(_)
sorted(S) ==
    IF S = {} THEN << >>
    ELSE LET m == CHOOSE x \in S : \A y \in S : x <= y
         IN <<m>> \o sorted(S \ {m})

\* f'{a}/{b}'
label(a, b) == ToString(a) \o "/" \o ToString(b)

----------------------------------------------------------------------------
\* The quadratic family: the twelve literal entries of SGramFactory.

\* SGramFactory.create_sgram_0: the literal entry of index 0.
create_sgram_0 ==
    [ family |-> "2nd", index |-> 0, catalan_number |-> 1,
      numerator |-> 0, denominator |-> 0,
      formula_parts |-> [base |-> 1, expansion |-> 0],
      fraction_patterns |->
        << [k |-> "0/1", v |-> <<0>>] >>,
      additional_factors |->
        << >> ]

\* SGramFactory.create_sgram_1: the literal entry of index 1.
create_sgram_1 ==
    [ family |-> "2nd", index |-> 1, catalan_number |-> 2,
      numerator |-> 1, denominator |-> 1,
      formula_parts |-> [base |-> 1, expansion |-> 1],
      fraction_patterns |->
        << [k |-> "1/1", v |-> <<1>>] >>,
      additional_factors |->
        << [k |-> "1/1", v |-> <<1>>] >> ]

\* SGramFactory.create_sgram_2: the literal entry of index 2.
create_sgram_2 ==
    [ family |-> "2nd", index |-> 2, catalan_number |-> 5,
      numerator |-> 2, denominator |-> 4,
      formula_parts |-> [base |-> 2, expansion |-> 3],
      fraction_patterns |->
        << [k |-> "1/3", v |-> <<1, 3>>],
           [k |-> "1/2", v |-> <<2>>] >>,
      additional_factors |->
        << [k |-> "1/1", v |-> <<4>>] >> ]

\* A faulty entry of index 3, which the partition of the state space must
\* tell from the literal one: the value 7 is in two cycles of the primary set.
create_sgram_3_shared ==
    [ family |-> "2nd", index |-> 3, catalan_number |-> 14,
      numerator |-> 3, denominator |-> 9,
      formula_parts |-> [base |-> 3, expansion |-> 7],
      fraction_patterns |->
        << [k |-> "1/7", v |-> <<1, 4, 2, 8, 5, 7>>],
           [k |-> "1/3", v |-> <<3, 6, 7>>] >>,
      additional_factors |->
        << [k |-> "1/1", v |-> <<9>>] >> ]

\* SGramFactory.create_sgram_3: the literal entry of index 3.
create_sgram_3 ==
    [ family |-> "2nd", index |-> 3, catalan_number |-> 14,
      numerator |-> 3, denominator |-> 9,
      formula_parts |-> [base |-> 3, expansion |-> 7],
      fraction_patterns |->
        << [k |-> "1/7", v |-> <<1, 4, 2, 8, 5, 7>>],
           [k |-> "1/3", v |-> <<3, 6>>] >>,
      additional_factors |->
        << [k |-> "1/1", v |-> <<9>>] >> ]

\* SGramFactory.create_sgram_4: the literal entry of index 4.
create_sgram_4 ==
    [ family |-> "2nd", index |-> 4, catalan_number |-> 42,
      numerator |-> 4, denominator |-> 16,
      formula_parts |-> [base |-> 4, expansion |-> 13],
      fraction_patterns |->
        << [k |-> "1/13", v |-> <<1, 5, 3, 15, 11, 13>>],
           [k |-> "2/13", v |-> <<2, 10, 7, 14, 6, 9>>],
           [k |-> "1/4", v |-> <<4, 8, 12>>] >>,
      additional_factors |->
        << [k |-> "1/4", v |-> <<4, 12>>],
           [k |-> "1/2", v |-> <<8>>],
           [k |-> "1/1", v |-> <<16>>] >> ]

\* SGramFactory.create_sgram_5: the literal entry of index 5.
create_sgram_5 ==
    [ family |-> "2nd", index |-> 5, catalan_number |-> 132,
      numerator |-> 5, denominator |-> 25,
      formula_parts |-> [base |-> 5, expansion |-> 21],
      fraction_patterns |->
        << [k |-> "1/21", v |-> <<1, 6, 4, 24, 19, 21>>],
           [k |-> "2/21", v |-> <<2, 12, 9, 23, 13, 16>>],
           [k |-> "3/21", v |-> <<3, 18, 14, 22, 7, 11>>],
           [k |-> "7/21", v |-> <<8, 17>>],
           [k |-> "1/5", v |-> <<5, 10, 15, 20>>] >>,
      additional_factors |->
        << [k |-> "1/1", v |-> <<25>>] >> ]

\* SGramFactory.create_sgram_6: the literal entry of index 6.
create_sgram_6 ==
    [ family |-> "2nd", index |-> 6, catalan_number |-> 429,
      numerator |-> 6, denominator |-> 36,
      formula_parts |-> [base |-> 6, expansion |-> 31],
      fraction_patterns |->
        << [k |-> "1/31", v |-> <<1, 7, 5, 35, 29, 31>>],
           [k |-> "2/31", v |-> <<2, 14, 11, 34, 22, 25>>],
           [k |-> "3/31", v |-> <<3, 21, 17, 33, 15, 19>>],
           [k |-> "4/31", v |-> <<4, 28, 23, 32, 8, 13>>],
           [k |-> "8/31", v |-> <<9, 20, 10, 27, 16, 26>>],
           [k |-> "1/6", v |-> <<6, 12, 18, 24, 30>>] >>,
      additional_factors |->
        << [k |-> "1/6", v |-> <<6, 30>>],
           [k |-> "1/3", v |-> <<12, 24>>],
           [k |-> "1/2", v |-> <<18>>],
           [k |-> "1/1", v |-> <<36>>] >> ]

\* SGramFactory.create_sgram_7: the literal entry of index 7.
create_sgram_7 ==
    [ family |-> "2nd", index |-> 7, catalan_number |-> 1430,
      numerator |-> 7, denominator |-> 49,
      formula_parts |-> [base |-> 7, expansion |-> 43],
      fraction_patterns |->
        << [k |-> "1/43", v |-> <<1, 8, 6, 48, 41, 43>>],
           [k |-> "2/43", v |-> <<2, 16, 13, 47, 33, 36>>],
           [k |-> "3/43", v |-> <<3, 24, 20, 46, 25, 29>>],
           [k |-> "4/43", v |-> <<4, 32, 27, 45, 17, 22>>],
           [k |-> "5/43", v |-> <<5, 40, 34, 44, 9, 15>>],
           [k |-> "9/43", v |-> <<10, 23, 12, 39, 26, 37>>],
           [k |-> "10/43", v |-> <<11, 31, 19, 38, 18, 30>>],
           [k |-> "1/7", v |-> <<7, 14, 21, 28, 35, 42>>] >>,
      additional_factors |->
        << [k |-> "1/1", v |-> <<49>>] >> ]

\* SGramFactory.create_sgram_8: the literal entry of index 8.
create_sgram_8 ==
    [ family |-> "2nd", index |-> 8, catalan_number |-> 4862,
      numerator |-> 8, denominator |-> 64,
      formula_parts |-> [base |-> 8, expansion |-> 57],
      fraction_patterns |->
        << [k |-> "1/57", v |-> <<1, 9, 7, 63, 55, 57>>],
           [k |-> "2/57", v |-> <<2, 18, 15, 62, 46, 49>>],
           [k |-> "3/57", v |-> <<3, 27, 23, 61, 37, 41>>],
           [k |-> "4/57", v |-> <<4, 36, 31, 60, 28, 33>>],
           [k |-> "5/57", v |-> <<5, 45, 39, 59, 19, 25>>],
           [k |-> "6/57", v |-> <<6, 54, 47, 58, 10, 17>>],
           [k |-> "10/57", v |-> <<11, 26, 14, 53, 38, 50>>],
           [k |-> "11/57", v |-> <<12, 35, 22, 52, 29, 42>>],
           [k |-> "12/57", v |-> <<13, 44, 30, 51, 20, 34>>],
           [k |-> "19/57", v |-> <<21, 43>>],
           [k |-> "1/8", v |-> <<8, 16, 24, 32, 40, 48, 56>>] >>,
      additional_factors |->
        << [k |-> "1/8", v |-> <<8, 24, 40, 56>>],
           [k |-> "1/4", v |-> <<16, 48>>],
           [k |-> "1/2", v |-> <<32>>],
           [k |-> "1/1", v |-> <<64>>] >> ]

\* SGramFactory.create_sgram_9: the literal entry of index 9.
create_sgram_9 ==
    [ family |-> "2nd", index |-> 9, catalan_number |-> 16796,
      numerator |-> 9, denominator |-> 81,
      formula_parts |-> [base |-> 9, expansion |-> 73],
      fraction_patterns |->
        << [k |-> "1/73", v |-> <<1, 10, 8, 80, 71, 73>>],
           [k |-> "2/73", v |-> <<2, 20, 17, 79, 61, 64>>],
           [k |-> "3/73", v |-> <<3, 30, 26, 78, 51, 55>>],
           [k |-> "4/73", v |-> <<4, 40, 35, 77, 41, 46>>],
           [k |-> "5/73", v |-> <<5, 50, 44, 76, 31, 37>>],
           [k |-> "6/73", v |-> <<6, 60, 53, 75, 21, 28>>],
           [k |-> "7/73", v |-> <<7, 70, 62, 74, 11, 19>>],
           [k |-> "11/73", v |-> <<12, 29, 16, 69, 52, 65>>],
           [k |-> "12/73", v |-> <<13, 39, 25, 68, 42, 56>>],
           [k |-> "13/73", v |-> <<14, 49, 34, 67, 32, 47>>],
           [k |-> "14/73", v |-> <<15, 59, 43, 66, 22, 38>>],
           [k |-> "21/73", v |-> <<23, 48, 24, 58, 33, 57>>],
           [k |-> "1/9", v |-> <<9, 18, 27, 36, 45, 54, 63, 72>>] >>,
      additional_factors |->
        << [k |-> "1/9", v |-> <<9, 18, 36, 45, 63, 72>>],
           [k |-> "1/3", v |-> <<27, 54>>],
           [k |-> "1/1", v |-> <<81>>] >> ]

\* SGramFactory.create_sgram_10: the literal entry of index 10.
create_sgram_10 ==
    [ family |-> "2nd", index |-> 10, catalan_number |-> 58786,
      numerator |-> 10, denominator |-> 100,
      formula_parts |-> [base |-> 10, expansion |-> 91],
      fraction_patterns |->
        << [k |-> "1/91", v |-> <<1, 11, 9, 99, 89, 91>>],
           [k |-> "2/91", v |-> <<2, 22, 19, 98, 78, 81>>],
           [k |-> "3/91", v |-> <<3, 33, 29, 97, 67, 71>>],
           [k |-> "4/91", v |-> <<4, 44, 39, 96, 56, 61>>],
           [k |-> "5/91", v |-> <<5, 55, 49, 95, 45, 51>>],
           [k |-> "6/91", v |-> <<6, 66, 59, 94, 34, 41>>],
           [k |-> "7/91", v |-> <<7, 77, 69, 93, 23, 31>>],
           [k |-> "8/91", v |-> <<8, 88, 79, 92, 12, 21>>],
           [k |-> "12/91", v |-> <<13, 32, 18, 87, 68, 82>>],
           [k |-> "13/91", v |-> <<14, 43, 28, 86, 57, 72>>],
           [k |-> "14/91", v |-> <<15, 54, 38, 85, 46, 62>>],
           [k |-> "15/91", v |-> <<16, 65, 48, 84, 35, 52>>],
           [k |-> "16/91", v |-> <<17, 76, 58, 83, 24, 42>>],
           [k |-> "23/91", v |-> <<25, 53, 27, 75, 47, 73>>],
           [k |-> "24/91", v |-> <<26, 64, 37, 74, 36, 63>>],
           [k |-> "1/10", v |-> <<10, 20, 30, 40, 50, 60, 70, 80, 90>>] >>,
      additional_factors |->
        << [k |-> "1/10", v |-> <<10, 30, 70, 90>>],
           [k |-> "1/5", v |-> <<20, 40, 60, 80>>],
           [k |-> "1/2", v |-> <<50>>],
           [k |-> "1/1", v |-> <<100>>] >> ]

\* SGramFactory.create_sgram_11: the literal entry of index 11.
create_sgram_11 ==
    [ family |-> "2nd", index |-> 11, catalan_number |-> 208012,
      numerator |-> 11, denominator |-> 121,
      formula_parts |-> [base |-> 11, expansion |-> 111],
      fraction_patterns |->
        << [k |-> "1/111", v |-> <<1, 12, 10, 120, 109, 111>>],
           [k |-> "2/111", v |-> <<2, 24, 21, 119, 97, 100>>],
           [k |-> "3/111", v |-> <<3, 36, 32, 118, 85, 89>>],
           [k |-> "4/111", v |-> <<4, 48, 43, 117, 73, 78>>],
           [k |-> "5/111", v |-> <<5, 60, 54, 116, 61, 67>>],
           [k |-> "6/111", v |-> <<6, 72, 65, 115, 49, 56>>],
           [k |-> "7/111", v |-> <<7, 84, 76, 114, 37, 45>>],
           [k |-> "8/111", v |-> <<8, 96, 87, 113, 25, 34>>],
           [k |-> "9/111", v |-> <<9, 108, 98, 112, 13, 23>>],
           [k |-> "13/111", v |-> <<14, 35, 20, 107, 86, 101>>],
           [k |-> "14/111", v |-> <<15, 47, 31, 106, 74, 90>>],
           [k |-> "15/111", v |-> <<16, 59, 42, 105, 62, 79>>],
           [k |-> "16/111", v |-> <<17, 71, 53, 104, 50, 68>>],
           [k |-> "17/111", v |-> <<18, 83, 64, 103, 38, 57>>],
           [k |-> "18/111", v |-> <<19, 95, 75, 102, 26, 46>>],
           [k |-> "25/111", v |-> <<27, 58, 30, 94, 63, 91>>],
           [k |-> "26/111", v |-> <<28, 70, 41, 93, 51, 80>>],
           [k |-> "27/111", v |-> <<29, 82, 52, 92, 39, 69>>],
           [k |-> "37/111", v |-> <<40, 81>>],
           [k |-> "1/11", v |-> <<11, 22, 33, 44, 55, 66, 77, 88, 99, 110>>] >>,
      additional_factors |->
        << [k |-> "1/1", v |-> <<121>>] >> ]
\* SGramFactory.create_sgram: the creators list, indexed by the entry's index
creators ==
    << create_sgram_0, create_sgram_1, create_sgram_2, create_sgram_3,
       create_sgram_4, create_sgram_5, create_sgram_6, create_sgram_7,
       create_sgram_8, create_sgram_9, create_sgram_10, create_sgram_11 >>

\* SGramFactory.create_sgram(index)
create_sgram(index) ==
    IF index < 0 \/ index > 11
    THEN Raise("S-Gram index must be between 0 and 11")
    ELSE Return(item(creators, index))

----------------------------------------------------------------------------
\* The linear family.

\* NGram1stPowerFactory.create_ngram_1st(index)
create_ngram_1st(index) ==
    LET value == 1 + (1 + index)
    IN Return([ family |-> "1st", index |-> index, sequence_value |-> value,
                formula_parts |-> [base |-> 1, increment |-> 1 + index],
                fraction_patterns |->
                    << [k |-> label(1, value), v |-> range(1, value + 1, 1)] >>,
                additional_factors |-> << >> ])

----------------------------------------------------------------------------
\* The cubic family.

\* NGram3rdPowerFactory._generate_cubic_patterns(index, value)
generate_cubic_patterns(index, value) ==
    LET expansion == (1 + index) * (1 + index) * (1 + index)
        base == 1 + index
        base_sq == base * base
        p1 == IF expansion > 1
              THEN dict_set(<< >>, label(1, expansion), range(1, expansion + 1, 1))
              ELSE << >>
        p2 == IF base > 1
              THEN dict_set(p1, label(1, base), range(1, base + 1, 1))
              ELSE p1
        p3 == IF base > 1 /\ base_sq # expansion
              THEN dict_set(p2, label(1, base_sq), range(1, base_sq + 1, base))
              ELSE p2
    IN p3

\* NGram3rdPowerFactory.create_ngram_3rd(index)
create_ngram_3rd(index) ==
    LET value == 1 + (1 + index) * (1 + index) * (1 + index)
        expansion == (1 + index) * (1 + index) * (1 + index)
        base == 1 + index
    IN Return([ family |-> "3rd", index |-> index, sequence_value |-> value,
                formula_parts |->
                    [base |-> 1, cube_base |-> 1 + index, expansion |-> expansion],
                fraction_patterns |-> generate_cubic_patterns(index, value),
                additional_factors |->
                    IF base > 1 THEN << [k |-> "1/1", v |-> <<expansion>>] >>
                    ELSE << >> ])

----------------------------------------------------------------------------
\* The rooted-tree family (OEIS A000081).

\* NGram2DCatalanFactory.A000081_SEQUENCE, n = 0..20
A000081_SEQUENCE ==
    << 0, 1, 1, 2, 4, 9, 20, 48, 115, 286, 719, 1842, 4766, 12486, 32973,
       87811, 235381, 634847, 1721159, 4688676, 12826228 >>

\* min(a, b)
min(a, b) == IF a <= b THEN a ELSE b

\* NGram2DCatalanFactory._generate_tree_patterns: the factors list,
\* [i for i in range(2, min(tree_count, 10) + 1) if tree_count % i == 0]
tree_factors(tree_count) ==
    LET divides(i) == tree_count % i = 0
    IN SelectSeq(range(2, min(tree_count, 10) + 1, 1), divides)

\* NGram2DCatalanFactory._generate_tree_patterns: the loop over factors[:3]
RECURSIVE add_factor_patterns(_, _, _)
add_factor_patterns(pats, factors, tree_count) ==
    IF factors = << >> THEN pats
    ELSE LET factor == factors[1]
             step == tree_count \div factor
         IN add_factor_patterns(
                dict_set(pats, label(factor, tree_count),
                         range(factor, tree_count + 1, step)),
                Tail(factors), tree_count)

\* NGram2DCatalanFactory._generate_tree_patterns(index, tree_count)
generate_tree_patterns(index, tree_count) ==
    IF tree_count = 0 THEN << >>
    ELSE LET p1 == IF tree_count > 0
                   THEN dict_set(<< >>, label(1, tree_count),
                                 range(1, tree_count + 1, 1))
                   ELSE << >>
             factors == tree_factors(tree_count)
         IN IF tree_count > 1
            THEN add_factor_patterns(p1, SubSeq(factors, 1, min(3, Len(factors))),
                                     tree_count)
            ELSE p1

\* NGram2DCatalanFactory.create_ngram_2d_catalan(index)
create_ngram_2d_catalan(index) ==
    IF index >= Len(A000081_SEQUENCE)
    THEN Raise("Index exceeds supported range")
    ELSE LET looked_up == getitem(A000081_SEQUENCE, index)
             tree_count == looked_up.val[1]
         IN IF looked_up.err # "" THEN looked_up
            ELSE Return(
                [ family |-> "2d", index |-> index, sequence_value |-> tree_count,
                  formula_parts |-> [rooted_trees |-> tree_count, index |-> index],
                  fraction_patterns |-> generate_tree_patterns(index, tree_count),
                  additional_factors |->
                     IF tree_count > 1 THEN << [k |-> "1/1", v |-> <<tree_count>>] >>
                     ELSE << >> ])

----------------------------------------------------------------------------
\* The unlabeled-tree family (OEIS A000055).

\* NGram3DCatalanFactory.A000055_SEQUENCE, n = 0..20
A000055_SEQUENCE ==
    << 1, 1, 1, 1, 2, 3, 6, 11, 23, 47, 106, 235, 551, 1301, 3159, 7741,
       19320, 48629, 123867, 317955, 823065 >>

\* A faulty _generate_symmetric_patterns, which cycle well-formedness must
\* tell from it: the cycle is stored closed, its first value repeated at the
\* end.
generate_symmetric_patterns_closed(index, tree_count) ==
    << [k |-> label(1, tree_count), v |-> Append(range(1, tree_count + 1, 1), 1)] >>

\* NGram3DCatalanFactory._generate_symmetric_patterns(index, tree_count)
generate_symmetric_patterns(index, tree_count) ==
    IF tree_count = 0 THEN << [k |-> "1/1", v |-> <<0>>] >>
    ELSE LET p1 == IF tree_count > 0
                   THEN dict_set(<< >>, label(1, tree_count),
                                 range(1, tree_count + 1, 1))
                   ELSE << >>
             half == (tree_count + 1) \div 2
         IN IF tree_count > 1 /\ half > 1
            THEN dict_set(p1, label(1, half), range(1, tree_count + 1, 2))
            ELSE p1

\* NGram3DCatalanFactory.create_ngram_3d_catalan(index)
create_ngram_3d_catalan(index) ==
    IF index >= Len(A000055_SEQUENCE)
    THEN Raise("Index exceeds supported range")
    ELSE LET looked_up == getitem(A000055_SEQUENCE, index)
             tree_count == looked_up.val[1]
         IN IF looked_up.err # "" THEN looked_up
            ELSE Return(
                [ family |-> "3d", index |-> index, sequence_value |-> tree_count,
                  formula_parts |->
                     [unlabeled_trees |-> tree_count, index |-> index,
                      symmetry |-> "flip_transform"],
                  fraction_patterns |->
                     generate_symmetric_patterns(index, tree_count),
                  additional_factors |->
                     IF tree_count > 1 THEN << [k |-> "1/1", v |-> <<tree_count>>] >>
                     ELSE IF tree_count = 1 THEN << [k |-> "1/1", v |-> <<1>>] >>
                     ELSE << >> ])

----------------------------------------------------------------------------
\* The entry's accessors (SGram and NGramBase define them alike).

\* get_all_patterns(): dict(fraction_patterns) updated with additional_factors
get_all_patterns(sg) == dict_update(sg.fraction_patterns, sg.additional_factors)

\* A faulty get_all_patterns, which the read-only lifecycle must tell from
\* it: the update is made on self.fraction_patterns itself, not on a copy.
after_get_all_patterns_in_place(sg) ==
    [sg EXCEPT !.fraction_patterns =
                    dict_update(sg.fraction_patterns, sg.additional_factors)]

\* The entry after a call of get_all_patterns(): all_patterns is a new dict,
\* dict(self.fraction_patterns), and update() changes that copy, so the entry
\* keeps its two sets
after_get_all_patterns(sg) == sg

\* NGram1stPower.compute_value(n)
compute_value_1st(n) == Return(1 + (1 + n))

\* A faulty NGram3rdPower.compute_value, which the value property must tell
\* from it: the square in place of the cube.
compute_value_3rd_squared(n) == Return(1 + (1 + n) * (1 + n))

\* NGram3rdPower.compute_value(n)
compute_value_3rd(n) == Return(1 + (1 + n) * (1 + n) * (1 + n))

\* NGram2DCatalan.compute_value(n)
compute_value_2d(n) ==
    IF n < Len(A000081_SEQUENCE) THEN getitem(A000081_SEQUENCE, n) ELSE Return(0)

\* NGram3DCatalan.compute_value(n)
compute_value_3d(n) ==
    IF n < Len(A000055_SEQUENCE) THEN getitem(A000055_SEQUENCE, n) ELSE Return(0)

\* ngram.compute_value(n), dispatched on the entry's class
compute_value(sg, n) ==
    CASE sg.family = "1st" -> compute_value_1st(n)
      [] sg.family = "3rd" -> compute_value_3rd(n)
      [] sg.family = "2d" -> compute_value_2d(n)
      [] sg.family = "3d" -> compute_value_3d(n)

----------------------------------------------------------------------------
\* StateTransformer.

\* _build_state_map: the last i of `for i, state in enumerate(sequence)` that
\* holds state, whose assignment is the one that stays in the map
last_index_of(sequence, state) ==
    (CHOOSE i \in 1..Len(sequence) :
        sequence[i] = state /\ \A j \in (i + 1)..Len(sequence) : sequence[j] # state) - 1

\* A faulty next_state_of, which the index-3 scenario must tell from it: the
\* next state is taken two positions on instead of one.
next_state_skipping(sequence, state) ==
    item(sequence, (last_index_of(sequence, state) + 2) % Len(sequence))

\* _build_state_map: next_state = sequence[(i + 1) % len(sequence)]
next_state_of(sequence, state) ==
    item(sequence, (last_index_of(sequence, state) + 1) % Len(sequence))

\* _build_state_map: state_map[state], one item per pattern holding the state,
\* in the order of get_all_patterns()
RECURSIVE transitions_of(_, _)
transitions_of(all_patterns, state) ==
    IF all_patterns = << >> THEN << >>
    ELSE LET rest == transitions_of(Tail(all_patterns), state)
         IN IF contains(all_patterns[1].v, state)
            THEN << [k |-> all_patterns[1].k,
                     v |-> next_state_of(all_patterns[1].v, state)] >> \o rest
            ELSE rest

\* StateTransformer._build_state_map()
build_state_map(sg) ==
    LET all_patterns == get_all_patterns(sg)
        states == UNION {set_of(all_patterns[i].v) : i \in 1..Len(all_patterns)}
    IN [state \in states |-> transitions_of(all_patterns, state)]

\* A faulty resolve, which the value-not-in-cycle property must tell from it:
\* a state that has no transition under the label follows the first transition
\* it has, under whatever label, instead of raising.
resolve_any_pattern(sg, sm, state, pat) ==
    LET keys == dict_keys(sg.fraction_patterns)
    IN IF pat = None /\ keys = << >>
       THEN Raise("No patterns available")
       ELSE LET p == IF pat = None THEN keys[1] ELSE pat
            IN IF state \notin DOMAIN sm
               THEN Raise("State not found")
               ELSE IF ~dict_has(sm[state], p)
               THEN Return(sm[state][1].v)
               ELSE Return(dict_get(sm[state], p)[1])

\* A faulty resolve, which the default-cycle property must tell from it: with
\* no label given it takes the last-inserted label of the primary set.
resolve_default_last(sg, sm, state, pat) ==
    LET keys == dict_keys(sg.fraction_patterns)
    IN IF pat = None /\ keys = << >>
       THEN Raise("No patterns available")
       ELSE LET p == IF pat = None THEN keys[Len(keys)] ELSE pat
            IN IF state \notin DOMAIN sm
               THEN Raise("State not found")
               ELSE IF ~dict_has(sm[state], p)
               THEN Raise("Pattern not applicable to state")
               ELSE Return(dict_get(sm[state], p)[1])

\* StateTransformer.resolve(state, pattern)
resolve(sg, sm, state, pat) ==
    LET keys == dict_keys(sg.fraction_patterns)
    IN IF pat = None /\ keys = << >>
       THEN Raise("No patterns available")
       ELSE LET p == IF pat = None THEN keys[1] ELSE pat
            IN IF state \notin DOMAIN sm
               THEN Raise("State not found")
               ELSE IF ~dict_has(sm[state], p)
               THEN Raise("Pattern not applicable to state")
               ELSE Return(dict_get(sm[state], p)[1])

\* A faulty pattern_sequence, which the unknown-label property must tell from
\* it: a label the entry does not have falls back to the first cycle of the
\* primary set.
pattern_sequence_or_first(sg, p) ==
    LET first == dict_get(sg.fraction_patterns, p)
        second == dict_get(sg.additional_factors, p)
    IN IF first # << >> /\ first[1] # << >>
       THEN first
       ELSE IF second # << >> \/ sg.fraction_patterns = << >>
       THEN second
       ELSE << sg.fraction_patterns[1].v >>

\* fraction_patterns.get(pattern) or additional_factors.get(pattern):
\* << >> for None, else <<sequence>>
pattern_sequence(sg, p) ==
    LET first == dict_get(sg.fraction_patterns, p)
    IN IF first # << >> /\ first[1] # << >>
       THEN first
       ELSE dict_get(sg.additional_factors, p)

\* StateTransformer.inform(state, pattern)
inform(sg, state, pat) ==
    LET keys == dict_keys(sg.fraction_patterns)
    IN IF pat = None /\ keys = << >>
       THEN Raise("No patterns available")
       ELSE LET p == IF pat = None THEN keys[1] ELSE pat
                found == pattern_sequence(sg, p)
            IN IF found = << >>
               THEN Raise("Pattern not found")
               ELSE IF ~contains(found[1], state)
               THEN Raise("State not in pattern")
               ELSE LET sequence == found[1]
                        idx == index_of(sequence, state)
                    IN Return(item(sequence, (idx - 1) % Len(sequence)))

\* StateTransformer.get_cycle_length(pattern)
get_cycle_length(sg, pat) ==
    LET keys == dict_keys(sg.fraction_patterns)
    IN IF pat = None /\ keys = << >>
       THEN 0
       ELSE LET p == IF pat = None THEN keys[1] ELSE pat
                found == pattern_sequence(sg, p)
            IN IF found # << >> /\ found[1] # << >> THEN Len(found[1]) ELSE 0

\* A faulty get_state_distance, which the forward-distance property must tell
\* from it: a target that lies before the source is reached backwards, without
\* the wraparound.
get_state_distance_backward(sg, from_state, to_state, pat) ==
    LET keys == dict_keys(sg.fraction_patterns)
    IN IF pat = None /\ keys = << >>
       THEN Raise("No patterns available")
       ELSE LET p == IF pat = None THEN keys[1] ELSE pat
                found == pattern_sequence(sg, p)
            IN IF found = << >>
               THEN Raise("Pattern not found")
               ELSE IF ~contains(found[1], from_state) \/ ~contains(found[1], to_state)
               THEN Raise("States must be in the pattern sequence")
               ELSE LET sequence == found[1]
                        from_idx == index_of(sequence, from_state)
                        to_idx == index_of(sequence, to_state)
                    IN IF to_idx >= from_idx
                       THEN Return(to_idx - from_idx)
                       ELSE Return(from_idx - to_idx)

\* StateTransformer.get_state_distance(from_state, to_state, pattern)
get_state_distance(sg, from_state, to_state, pat) ==
    LET keys == dict_keys(sg.fraction_patterns)
    IN IF pat = None /\ keys = << >>
       THEN Raise("No patterns available")
       ELSE LET p == IF pat = None THEN keys[1] ELSE pat
                found == pattern_sequence(sg, p)
            IN IF found = << >>
               THEN Raise("Pattern not found")
               ELSE IF ~contains(found[1], from_state) \/ ~contains(found[1], to_state)
               THEN Raise("States must be in the pattern sequence")
               ELSE LET sequence == found[1]
                        from_idx == index_of(sequence, from_state)
                        to_idx == index_of(sequence, to_state)
                    IN IF to_idx >= from_idx
                       THEN Return(to_idx - from_idx)
                       ELSE Return(Len(sequence) - from_idx + to_idx)

\* StateTransformer.trace_path: the loop `for _ in range(steps)`, left by the
\* first step that raises
RECURSIVE trace_loop(_, _, _, _, _, _, _)
trace_loop(sg, sm, path, current, steps, pat, reverse) ==
    IF steps <= 0 THEN Return(path)
    ELSE LET r == IF reverse THEN inform(sg, current, pat)
                  ELSE resolve(sg, sm, current, pat)
         IN IF r.err # "" THEN r
            ELSE trace_loop(sg, sm, Append(path, r.val[1]), r.val[1],
                            steps - 1, pat, reverse)

\* StateTransformer.trace_path(start_state, steps, pattern, reverse)
trace_path(sg, sm, start_state, steps, pat, reverse) ==
    trace_loop(sg, sm, <<start_state>>, start_state, steps, pat, reverse)

\* StateTransformer.get_transition_table: the loop over enumerate(sequence)
\* from 0-based position i on
RECURSIVE table_loop(_, _, _)
table_loop(sequence, i, table) ==
    IF i >= Len(sequence) THEN table
    ELSE table_loop(sequence, i + 1,
            dict_set(table, item(sequence, i),
                     << item(sequence, (i - 1) % Len(sequence)),
                        item(sequence, (i + 1) % Len(sequence)) >>))

\* StateTransformer.get_transition_table(pattern)
get_transition_table(sg, pat) ==
    LET keys == dict_keys(sg.fraction_patterns)
    IN IF pat = None /\ keys = << >>
       THEN << >>
       ELSE LET p == IF pat = None THEN keys[1] ELSE pat
                found == pattern_sequence(sg, p)
            IN IF found = << >> THEN << >>
               ELSE table_loop(found[1], 0, << >>)

----------------------------------------------------------------------------
\* FractionPatternAnalyzer.

\* FractionPattern(divisor, sequence, cycle_length, is_primary, is_additional_factor)
FractionPattern(divisor, sequence, cycle_length, is_primary, is_additional_factor) ==
    [ divisor |-> divisor, sequence |-> sequence, cycle_length |-> cycle_length,
      is_primary |-> is_primary, is_additional_factor |-> is_additional_factor ]

\* A faulty _extract_patterns, which the primary designation must tell from
\* it: every cycle of the primary set is marked primary.
extract_patterns_all_primary(sg) ==
    [i \in 1..Len(sg.fraction_patterns) |->
        FractionPattern(sg.fraction_patterns[i].k, sg.fraction_patterns[i].v,
                        Len(sg.fraction_patterns[i].v), TRUE, FALSE)]
    \o
    [i \in 1..Len(sg.additional_factors) |->
        FractionPattern(sg.additional_factors[i].k, sg.additional_factors[i].v,
                        Len(sg.additional_factors[i].v), FALSE, TRUE)]

\* FractionPatternAnalyzer._extract_patterns()
extract_patterns(sg) ==
    [i \in 1..Len(sg.fraction_patterns) |->
        FractionPattern(sg.fraction_patterns[i].k, sg.fraction_patterns[i].v,
                        Len(sg.fraction_patterns[i].v), i = 1, FALSE)]
    \o
    [i \in 1..Len(sg.additional_factors) |->
        FractionPattern(sg.additional_factors[i].k, sg.additional_factors[i].v,
                        Len(sg.additional_factors[i].v), FALSE, TRUE)]

\* FractionPatternAnalyzer.get_pattern_by_divisor(divisor): << >> for None
get_pattern_by_divisor(pats, divisor) ==
    IF \E i \in 1..Len(pats) : pats[i].divisor = divisor
    THEN << pats[CHOOSE i \in 1..Len(pats) :
                    pats[i].divisor = divisor
                    /\ \A j \in 1..(i - 1) : pats[j].divisor # divisor] >>
    ELSE << >>

\* A faulty get_pattern_overlap, which the overlap property must tell from
\* it: the common states are left in the order of the first cycle.
get_pattern_overlap_unsorted(pats, divisor1, divisor2) ==
    LET pattern1 == get_pattern_by_divisor(pats, divisor1)
        pattern2 == get_pattern_by_divisor(pats, divisor2)
        common(state) == contains(pattern2[1].sequence, state)
    IN IF pattern1 = << >> \/ pattern2 = << >> THEN << >>
       ELSE SelectSeq(pattern1[1].sequence, common)

\* FractionPatternAnalyzer.get_pattern_overlap(divisor1, divisor2)
get_pattern_overlap(pats, divisor1, divisor2) ==
    LET pattern1 == get_pattern_by_divisor(pats, divisor1)
        pattern2 == get_pattern_by_divisor(pats, divisor2)
    IN IF pattern1 = << >> \/ pattern2 = << >> THEN << >>
       ELSE sorted(set_of(pattern1[1].sequence) \cap set_of(pattern2[1].sequence))


\* FractionPattern.contains_state(state)
contains_state(p, state) == contains(p.sequence, state)

\* A faulty get_patterns_containing_state, which the patterns-containing
\* property must tell from it: the search stops at the first match.
get_patterns_containing_state_first(pats, state) ==
    LET holds(p) == contains_state(p, state)
        found == SelectSeq(pats, holds)
    IN SubSeq(found, 1, min(1, Len(found)))

\* FractionPatternAnalyzer.get_patterns_containing_state(state)
get_patterns_containing_state(pats, state) ==
    LET holds(p) == contains_state(p, state)
    IN SelectSeq(pats, holds)

\* math.gcd(a, b) for a, b >= 0
RECURSIVE gcd(_, _)
gcd(a, b) == IF b = 0 THEN a ELSE gcd(b, a % b)

\* functools.reduce(gcd, lengths) for a non-empty list: folded from the left,
\* the first item being the initial value
RECURSIVE reduce_gcd(_, _)
reduce_gcd(accumulated, lengths) ==
    IF lengths = << >> THEN accumulated
    ELSE reduce_gcd(gcd(accumulated, lengths[1]), Tail(lengths))

\* max(lengths), min(lengths) for a non-empty list
max_of(lengths) == CHOOSE m \in set_of(lengths) : \A x \in set_of(lengths) : x <= m
min_of(lengths) == CHOOSE m \in set_of(lengths) : \A x \in set_of(lengths) : m <= x

\* A faulty cycle_lengths_of, which the index-3 statistics must tell from it:
\* the additional factors are left out.
RECURSIVE cycle_lengths_primary(_, _)
cycle_lengths_primary(pats, cycle_lengths) ==
    IF pats = << >> THEN cycle_lengths
    ELSE cycle_lengths_primary(Tail(pats),
            IF pats[1].is_additional_factor THEN cycle_lengths
            ELSE dict_set(cycle_lengths, pats[1].divisor, pats[1].cycle_length))

\* analyze_cycle_relationships: {p.divisor: p.cycle_length for p in
\* self.patterns}, built onto cycle_lengths
RECURSIVE cycle_lengths_of(_, _)
cycle_lengths_of(pats, cycle_lengths) ==
    IF pats = << >> THEN cycle_lengths
    ELSE cycle_lengths_of(Tail(pats),
            dict_set(cycle_lengths, pats[1].divisor, pats[1].cycle_length))

\* A faulty common_divisor_of, which the empty-set statistics must tell from
\* it: the reduction starts from 0 whatever the list, and gives 0 for none.
common_divisor_from_zero(lengths) == reduce_gcd(0, lengths)

\* analyze_cycle_relationships: common_divisor
common_divisor_of(lengths) ==
    IF lengths # << >> THEN reduce_gcd(lengths[1], Tail(lengths)) ELSE 1

\* FractionPatternAnalyzer.analyze_cycle_relationships()
analyze_cycle_relationships(pats) ==
    LET cycle_lengths == cycle_lengths_of(pats, << >>)
        lengths == [i \in 1..Len(cycle_lengths) |-> cycle_lengths[i].v]
    IN [ cycle_lengths |-> cycle_lengths,
         common_divisor |-> common_divisor_of(lengths),
         max_cycle_length |-> IF lengths # << >> THEN max_of(lengths) ELSE 0,
         min_cycle_length |-> IF lengths # << >> THEN min_of(lengths) ELSE 0,
         total_patterns |-> Len(pats) ]

\* A faulty count_states, which the distribution property must tell from it:
\* a state is marked as seen instead of counted.
count_states_once(sequence, distribution) ==
    LET fresh(i) == /\ ~dict_has(distribution, sequence[i])
                    /\ \A j \in 1..(i - 1) : sequence[j] # sequence[i]
        first_seen == SelectSeq([i \in 1..Len(sequence) |-> i], fresh)
    IN [i \in 1..Len(distribution) |->
            [k |-> distribution[i].k,
             v |-> IF contains(sequence, distribution[i].k) THEN 1
                   ELSE distribution[i].v]]
       \o [n \in 1..Len(first_seen) |-> [k |-> sequence[first_seen[n]], v |-> 1]]

\* get_state_distribution: for state in pattern.sequence:
\* distribution[state] = distribution.get(state, 0) + 1. After the loop a key
\* the dict had keeps its place and has grown by the state's occurrences in
\* the sequence; the other states follow in the order they were first seen.
count_states(sequence, distribution) ==
    LET occurrences(state) ==
            Cardinality({i \in 1..Len(sequence) : sequence[i] = state})
        fresh(i) == /\ ~dict_has(distribution, sequence[i])
                    /\ \A j \in 1..(i - 1) : sequence[j] # sequence[i]
        first_seen == SelectSeq([i \in 1..Len(sequence) |-> i], fresh)
    IN [i \in 1..Len(distribution) |->
            [k |-> distribution[i].k,
             v |-> distribution[i].v + occurrences(distribution[i].k)]]
       \o [n \in 1..Len(first_seen) |->
            [k |-> sequence[first_seen[n]],
             v |-> occurrences(sequence[first_seen[n]])]]

\* get_state_distribution: for pattern in self.patterns
RECURSIVE distribution_loop(_, _)
distribution_loop(pats, distribution) ==
    IF pats = << >> THEN distribution
    ELSE distribution_loop(Tail(pats), count_states(pats[1].sequence, distribution))

\* FractionPatternAnalyzer.get_state_distribution()
get_state_distribution(pats) == distribution_loop(pats, << >>)

\* find_unique_states: other_states, the states of every pattern but the one
\* at 0-based position i
other_states(pats, i) ==
    UNION {set_of(pats[j + 1].sequence) : j \in (0..(Len(pats) - 1)) \ {i}}

\* A faulty unique_loop, which the unique-states property must tell from it:
\* the states are kept in the order of the cycle, unsorted.
RECURSIVE unique_loop_unsorted(_, _, _)
unique_loop_unsorted(pats, i, unique) ==
    IF i >= Len(pats) THEN unique
    ELSE LET others == other_states(pats, i)
             alone(state) == state \notin others
         IN unique_loop_unsorted(pats, i + 1,
                dict_set(unique, item(pats, i).divisor,
                         SelectSeq(item(pats, i).sequence, alone)))

\* find_unique_states: for i, pattern in enumerate(self.patterns), from 0-based
\* position i on
RECURSIVE unique_loop(_, _, _)
unique_loop(pats, i, unique) ==
    IF i >= Len(pats) THEN unique
    ELSE unique_loop(pats, i + 1,
            dict_set(unique, item(pats, i).divisor,
                     sorted(set_of(item(pats, i).sequence) \ other_states(pats, i))))

\* FractionPatternAnalyzer.find_unique_states()
find_unique_states(pats) == unique_loop(pats, 0, << >>)

----------------------------------------------------------------------------
\* CrossSGramAnalyzer.

\* sorted(sgrams, key=lambda s: s.index): a stable sort
RECURSIVE sorted_by_index(_)
sorted_by_index(sgrams) ==
    IF sgrams = << >> THEN << >>
    ELSE LET first == CHOOSE i \in 1..Len(sgrams) :
                        /\ \A j \in 1..Len(sgrams) : sgrams[i].index <= sgrams[j].index
                        /\ \A j \in 1..(i - 1) : sgrams[j].index # sgrams[i].index
             rest == [j \in 1..(Len(sgrams) - 1) |->
                        IF j < first THEN sgrams[j] ELSE sgrams[j + 1]]
         IN <<sgrams[first]>> \o sorted_by_index(rest)

\* {sg.index: FractionPatternAnalyzer(sg) for sg in sgrams}, an analyzer
\* being its list of patterns
RECURSIVE analyzers_of(_, _)
analyzers_of(sgrams, analyzers) ==
    IF sgrams = << >> THEN analyzers
    ELSE analyzers_of(Tail(sgrams),
                      dict_set(analyzers, sgrams[1].index, extract_patterns(sgrams[1])))

\* CrossSGramAnalyzer(sgrams)
CrossSGramAnalyzer(sgrams) ==
    [ sgrams |-> sorted_by_index(sgrams), analyzers |-> analyzers_of(sgrams, << >>) ]

\* FractionPatternAnalyzer.get_primary_pattern(): << >> for None
get_primary_pattern(pats) ==
    IF \E i \in 1..Len(pats) : pats[i].is_primary
    THEN << pats[CHOOSE i \in 1..Len(pats) :
                    pats[i].is_primary /\ \A j \in 1..(i - 1) : ~pats[j].is_primary] >>
    ELSE << >>

\* CrossSGramAnalyzer.compare_primary_patterns(): the loop over self.sgrams
RECURSIVE comparison_loop(_, _, _)
comparison_loop(cross, i, comparison) ==
    IF i > Len(cross.sgrams) THEN comparison
    ELSE LET index == cross.sgrams[i].index
             primary == get_primary_pattern(dict_get(cross.analyzers, index)[1])
         IN comparison_loop(cross, i + 1,
                IF primary # << >>
                THEN dict_set(comparison, index,
                              [ divisor |-> primary[1].divisor,
                                cycle_length |-> primary[1].cycle_length,
                                sequence |-> primary[1].sequence ])
                ELSE comparison)

\* CrossSGramAnalyzer.compare_primary_patterns()
compare_primary_patterns(cross) == comparison_loop(cross, 1, << >>)

\* find_common_patterns: the (divisor, index) of every pattern of every
\* entry, in the order the two loops visit them
RECURSIVE visited_patterns(_, _)
visited_patterns(cross, i) ==
    IF i > Len(cross.sgrams) THEN << >>
    ELSE LET index == cross.sgrams[i].index
             pats == dict_get(cross.analyzers, index)[1]
         IN [j \in 1..Len(pats) |-> [divisor |-> pats[j].divisor, index |-> index]]
            \o visited_patterns(cross, i + 1)

\* find_common_patterns: divisor_to_sgrams after the loops; a divisor is
\* inserted when first visited and gets the index of every visit appended
divisor_to_sgrams_of(visited) ==
    LET first_visit(i) == \A j \in 1..(i - 1) : visited[j].divisor # visited[i].divisor
        positions == SelectSeq([i \in 1..Len(visited) |-> i], first_visit)
        indices_of(divisor) ==
            LET same(p) == p.divisor = divisor
                visits == SelectSeq(visited, same)
            IN [i \in 1..Len(visits) |-> visits[i].index]
    IN [n \in 1..Len(positions) |->
            [k |-> visited[positions[n]].divisor,
             v |-> indices_of(visited[positions[n]].divisor)]]

\* sorted(common, key=lambda x: len(x[1]), reverse=True): a stable sort, equal
\* keys keeping their order
sorted_by_count(common) ==
    LET place(i) ==
            Cardinality({j \in 1..Len(common) : Len(common[j][2]) > Len(common[i][2])})
            + Cardinality({j \in 1..(i - 1) : Len(common[j][2]) = Len(common[i][2])})
            + 1
    IN [n \in 1..Len(common) |-> common[CHOOSE i \in 1..Len(common) : place(i) = n]]

\* CrossSGramAnalyzer.find_common_patterns()
find_common_patterns(cross) ==
    LET divisor_to_sgrams == divisor_to_sgrams_of(visited_patterns(cross, 1))
        multiple(entry) == Len(entry.v) > 1
        kept == SelectSeq(divisor_to_sgrams, multiple)
        common == [i \in 1..Len(kept) |-> <<kept[i].k, kept[i].v>>]
    IN sorted_by_count(common)

----------------------------------------------------------------------------
\* FlipTransform.

\* a < b for two Python lists: lexicographic, a proper prefix being less
list_less(a, b) ==
    \E i \in 1..(min(Len(a), Len(b)) + 1) :
        /\ \A j \in 1..(i - 1) : a[j] = b[j]
        /\ \/ i > Len(a) /\ i <= Len(b)
           \/ i <= Len(a) /\ i <= Len(b) /\ a[i] < b[i]

\* list(reversed(pattern))
reversed(sequence) == [i \in 1..Len(sequence) |-> sequence[Len(sequence) - i + 1]]

\* A faulty apply_flip, which the canonical form must tell from it: the
\* pattern is returned as it is.
apply_flip_unflipped(flipped) == flipped

\* FlipTransform.apply_flip(pattern): min(pattern, reversed_pattern), the
\* first argument unless the second is less
apply_flip(flipped) ==
    LET reversed_pattern == reversed(flipped)
    IN IF list_less(reversed_pattern, flipped) THEN reversed_pattern ELSE flipped

\* str(k) for a tuple of integers: "()", "(1,)", "(1, 2)"
RECURSIVE joined(_)
joined(values) ==
    IF Len(values) = 1 THEN ToString(values[1])
    ELSE ToString(values[1]) \o ", " \o joined(Tail(values))

str_of_tuple(values) ==
    IF values = << >> THEN "()"
    ELSE IF Len(values) = 1 THEN "(" \o ToString(values[1]) \o ",)"
    ELSE "(" \o joined(values) \o ")"

\* cluster_by_symmetry: clusters after the loop; a canonical form is inserted
\* when first met and gets every pattern of that form appended
clusters_of(flip_patterns) ==
    LET canonical(i) == apply_flip(flip_patterns[i])
        first_met(i) == \A j \in 1..(i - 1) : canonical(j) # canonical(i)
        positions == SelectSeq([i \in 1..Len(flip_patterns) |-> i], first_met)
        members(form) ==
            LET same(p) == apply_flip(p) = form
            IN SelectSeq(flip_patterns, same)
    IN [n \in 1..Len(positions) |->
            [k |-> canonical(positions[n]), v |-> members(canonical(positions[n]))]]

\* cluster_by_symmetry: {str(k): v for k, v in clusters.items()}
RECURSIVE with_str_keys(_, _)
with_str_keys(clusters, d) ==
    IF clusters = << >> THEN d
    ELSE with_str_keys(Tail(clusters),
                       dict_set(d, str_of_tuple(clusters[1].k), clusters[1].v))

\* FlipTransform.cluster_by_symmetry(patterns)
cluster_by_symmetry(flip_patterns) == with_str_keys(clusters_of(flip_patterns), << >>)

----------------------------------------------------------------------------
\* MultiPatternTransformer.

\* MultiPatternTransformer.get_pattern_for_state(state)
get_pattern_for_state(sg, state) ==
    LET all_patterns == get_all_patterns(sg)
        holds(entry) == contains(entry.v, state)
        found == SelectSeq(all_patterns, holds)
    IN [i \in 1..Len(found) |-> found[i].k]
----------------------------------------------------------------------------
\* Inputs of the session.

\* Labels no quadratic entry of index other than 3 and 7 holds ("1/7"), and
\* one no entry of any family holds ("0/0").
ExtraLabels == {"0/0", "1/7"}

\* The labels of an entry, in its primary set or its additional factors.
Labels(sg) ==
    set_of(dict_keys(sg.fraction_patterns)) \cup set_of(dict_keys(sg.additional_factors))

\* The label arguments a caller passes: a label of the entry, a label the
\* entry may not have, or none.
LabelInputs(sg) == Labels(sg) \cup ExtraLabels \cup {None}

\* Every value of every cycle of the entry.
AllStates(sg) ==
    UNION {set_of(sg.fraction_patterns[i].v) : i \in 1..Len(sg.fraction_patterns)}
    \cup UNION {set_of(sg.additional_factors[i].v) : i \in 1..Len(sg.additional_factors)}

\* The state arguments a caller passes: every value of the entry's cycles and
\* two values (0 but for the entry whose cycle is [0]) that no cycle holds.
StateInputs(sg) == AllStates(sg) \cup {-1, 0}

\* The second state passed to get_state_distance: the values of the label's
\* own sequence, the first value of the first and of the last cycle of the
\* primary set, and two values that no cycle holds.
ToStateInputs(sg, pat) ==
    LET fp == sg.fraction_patterns
        p == IF pat = None /\ fp # << >> THEN fp[1].k ELSE pat
        found == pattern_sequence(sg, p)
    IN (IF found = << >> THEN {} ELSE set_of(found[1]))
       \cup (IF fp = << >> \/ fp[1].v = << >> THEN {} ELSE {fp[1].v[1]})
       \cup (IF fp = << >> \/ fp[Len(fp)].v = << >> THEN {} ELSE {fp[Len(fp)].v[1]})
       \cup {-1, 0}

\* The index arguments a caller passes to each factory: indices of the
\* family's domain (0..11 for the three polynomial families, 0..20 for the two
\* table-backed ones), the first index above the domain, and negative ones;
\* for a table of 21 values, -21 is the lowest index a subscript accepts.
Indices2nd == -1..12
Indices1st == (-2..MaxIndex1st) \cup {12}
Indices3rd == -1..MaxIndex3rd
Indices2D ==
    (0..MaxIndex2D) \cup { Len(A000081_SEQUENCE), -Len(A000081_SEQUENCE),
                           -Len(A000081_SEQUENCE) - 1 }
Indices3D ==
    (0..MaxIndex3D) \cup { Len(A000055_SEQUENCE), -Len(A000055_SEQUENCE),
                           -Len(A000055_SEQUENCE) - 1 }

\* The arguments a caller passes to compute_value: 0..MaxN, the entry's own
\* index, the ends of the 21-value tables and the arguments next to them.
ValueInputs(sg) ==
    (0..MaxN) \cup {sg.index, -1}
    \cup { Len(A000081_SEQUENCE) - 1, Len(A000081_SEQUENCE), Len(A000081_SEQUENCE) + 1,
           -Len(A000081_SEQUENCE), -Len(A000081_SEQUENCE) - 1 }

\* The lists of entries a caller passes to CrossSGramAnalyzer: up to MaxSGrams
\* quadratic entries in any order, an index possibly taken more than once.
SGramLists == UNION {[1..n -> 0..11] : n \in 0..MaxSGrams}

\* The entries of a list of quadratic indices.
sgrams_of(indices) == [i \in 1..Len(indices) |-> create_sgram(indices[i]).val[1]]

\* The values of the patterns passed to FlipTransform.
FlipValues == 1..2

\* The patterns passed to FlipTransform: every list of up to MaxFlipLen values.
FlipPatterns == UNION {[1..n -> FlipValues] : n \in 0..MaxFlipLen}

\* The lists of patterns passed to cluster_by_symmetry.
FlipPatternLists == UNION {[1..n -> FlipPatterns] : n \in 0..MaxFlipPatterns}

----------------------------------------------------------------------------
\* The session.

\* No entry has been created yet.
NoEntry == [family |-> "None"]

\* No call has returned yet.
NoResult == [call |-> "none", val |-> << >>]

\* What the call op left behind: val is <<value>> when it returned and << >>
\* when it raised.
Result(op, r) == [call |-> op, val |-> r.val]

Init ==
    /\ pc = "start"
    /\ sgram = NoEntry
    /\ state_map = << >>
    /\ patterns = << >>
    /\ pattern = None
    /\ current_state = << >>
    /\ call = [op |-> "none"]
    /\ result = NoResult
    /\ error = ""

\* The factory call returns the entry or raises.
Created(op, index, r) ==
    /\ pc' = IF r.err = "" THEN "created" ELSE "failed"
    /\ sgram' = IF r.err = "" THEN r.val[1] ELSE sgram
    /\ call' = [op |-> op, index |-> index]
    /\ result' = Result(op, r)
    /\ error' = r.err
    /\ UNCHANGED <<state_map, patterns, pattern, current_state>>

\* sgram = SGramFactory.create_sgram(index)
CreateSGram ==
    /\ pc = "start"
    /\ \E index \in Indices2nd : Created("create_sgram", index, create_sgram(index))

\* ngram = NGram1stPowerFactory.create_ngram_1st(index)
CreateNGram1st ==
    /\ pc = "start"
    /\ \E index \in Indices1st :
        Created("create_ngram_1st", index, create_ngram_1st(index))

\* ngram = NGram3rdPowerFactory.create_ngram_3rd(index)
CreateNGram3rd ==
    /\ pc = "start"
    /\ \E index \in Indices3rd :
        Created("create_ngram_3rd", index, create_ngram_3rd(index))

\* ngram = NGram2DCatalanFactory.create_ngram_2d_catalan(index)
CreateNGram2DCatalan ==
    /\ pc = "start"
    /\ \E index \in Indices2D :
        Created("create_ngram_2d_catalan", index, create_ngram_2d_catalan(index))

\* ngram = NGram3DCatalanFactory.create_ngram_3d_catalan(index)
CreateNGram3DCatalan ==
    /\ pc = "start"
    /\ \E index \in Indices3D :
        Created("create_ngram_3d_catalan", index, create_ngram_3d_catalan(index))

\* transformer = StateTransformer(sgram)
StateTransformerInit ==
    /\ pc = "created"
    /\ state_map' = build_state_map(sgram)
    /\ sgram' = after_get_all_patterns(sgram)
    /\ pc' = "transformer"
    /\ UNCHANGED <<patterns, pattern, current_state, call, result, error>>

\* analyzer = FractionPatternAnalyzer(sgram)
FractionPatternAnalyzerInit ==
    /\ pc = "transformer"
    /\ patterns' = extract_patterns(sgram)
    /\ pc' = "ready"
    /\ UNCHANGED <<sgram, state_map, pattern, current_state, call, result, error>>

\* A call that cannot raise returns its value.
Returned(c, value) ==
    /\ pc' = "returned"
    /\ call' = c
    /\ result' = Result(c.op, Return(value))
    /\ error' = ""
    /\ UNCHANGED <<sgram, state_map, patterns, pattern, current_state>>

\* transformer.get_cycle_length(pattern)
GetCycleLength ==
    /\ pc = "ready"
    /\ \E p \in LabelInputs(sgram) :
        Returned([op |-> "get_cycle_length", pattern |-> p],
                 get_cycle_length(sgram, p))

\* transformer.get_transition_table(pattern)
GetTransitionTable ==
    /\ pc = "ready"
    /\ \E p \in LabelInputs(sgram) :
        Returned([op |-> "get_transition_table", pattern |-> p],
                 get_transition_table(sgram, p))

\* analyzer.get_pattern_overlap(divisor1, divisor2)
GetPatternOverlap ==
    /\ pc = "ready"
    /\ \E divisor1 \in LabelInputs(sgram) \ {None} :
       \E divisor2 \in LabelInputs(sgram) \ {None} :
        Returned([op |-> "get_pattern_overlap",
                  divisor1 |-> divisor1, divisor2 |-> divisor2],
                 get_pattern_overlap(patterns, divisor1, divisor2))

\* current_state = ...; pattern = ...: the caller fixes the state it starts
\* from and the label it passes
ChooseStart ==
    /\ pc = "ready"
    /\ \E state \in StateInputs(sgram) : \E p \in LabelInputs(sgram) :
        /\ current_state' = <<state>>
        /\ pattern' = p
    /\ pc' = "chosen"
    /\ UNCHANGED <<sgram, state_map, patterns, call, result, error>>

\* A step of the caller's loop: the call either raises, which ends the loop,
\* or returns the state the loop continues from.
Stepped(op, r) ==
    /\ pc' = IF r.err = "" THEN "stepped" ELSE "raised"
    /\ call' = [op |-> op, state |-> current_state[1], pattern |-> pattern]
    /\ result' = Result(op, r)
    /\ error' = r.err
    /\ current_state' = IF r.err = "" THEN r.val ELSE current_state
    /\ UNCHANGED <<sgram, state_map, patterns, pattern>>

\* next_state = transformer.resolve(current_state, pattern);
\* current_state = next_state
ResolveStep ==
    /\ pc \in {"chosen", "stepped"}
    /\ Stepped("resolve", resolve(sgram, state_map, current_state[1], pattern))

\* prev_state = transformer.inform(current_state, pattern);
\* current_state = prev_state
InformStep ==
    /\ pc \in {"chosen", "stepped"}
    /\ Stepped("inform", inform(sgram, current_state[1], pattern))

\* A single call returns its value or raises.
Called(c, r) ==
    /\ pc' = IF r.err = "" THEN "returned" ELSE "raised"
    /\ call' = c
    /\ result' = Result(c.op, r)
    /\ error' = r.err
    /\ UNCHANGED <<sgram, state_map, patterns, pattern, current_state>>

\* analyzer.get_patterns_containing_state(state)
GetPatternsContainingState ==
    /\ pc = "ready"
    /\ \E state \in StateInputs(sgram) :
        Returned([op |-> "get_patterns_containing_state", state |-> state],
                 get_patterns_containing_state(patterns, state))

\* analyzer.analyze_cycle_relationships()
AnalyzeCycleRelationships ==
    /\ pc = "ready"
    /\ Returned([op |-> "analyze_cycle_relationships"],
                analyze_cycle_relationships(patterns))

\* analyzer.get_state_distribution()
GetStateDistribution ==
    /\ pc = "ready"
    /\ Returned([op |-> "get_state_distribution"], get_state_distribution(patterns))

\* analyzer.find_unique_states()
FindUniqueStates ==
    /\ pc = "ready"
    /\ Returned([op |-> "find_unique_states"], find_unique_states(patterns))

\* ngram.compute_value(n), on an entry of a family that defines it
ComputeValue ==
    /\ pc = "ready"
    /\ sgram.family # "2nd"
    /\ \E n \in ValueInputs(sgram) :
        Called([op |-> "compute_value", n |-> n], compute_value(sgram, n))

\* A cross-entry query returns its value; no single entry is the session's.
Compared(c, value) ==
    /\ pc' = "compared"
    /\ call' = c
    /\ result' = Result(c.op, Return(value))
    /\ error' = ""
    /\ UNCHANGED <<sgram, state_map, patterns, pattern, current_state>>

\* CrossSGramAnalyzer([SGramFactory.create_sgram(i) for i in indices])
\*     .find_common_patterns()
FindCommonPatterns ==
    /\ pc = "start"
    /\ \E indices \in SGramLists :
        Compared([op |-> "find_common_patterns", indices |-> indices],
                 find_common_patterns(CrossSGramAnalyzer(sgrams_of(indices))))

\* CrossSGramAnalyzer([SGramFactory.create_sgram(i) for i in indices])
\*     .compare_primary_patterns()
ComparePrimaryPatterns ==
    /\ pc = "start"
    /\ \E indices \in SGramLists :
        Compared([op |-> "compare_primary_patterns", indices |-> indices],
                 compare_primary_patterns(CrossSGramAnalyzer(sgrams_of(indices))))

\* A static method of FlipTransform returns its value; the session has no
\* entry.
Flipped(c, value) ==
    /\ pc' = "flipped"
    /\ call' = c
    /\ result' = Result(c.op, Return(value))
    /\ error' = ""
    /\ UNCHANGED <<sgram, state_map, patterns, pattern, current_state>>

\* FlipTransform.apply_flip(pattern)
ApplyFlip ==
    /\ pc = "start"
    /\ \E p \in FlipPatterns :
        Flipped([op |-> "apply_flip", pattern |-> p], apply_flip(p))

\* FlipTransform.cluster_by_symmetry(patterns)
ClusterBySymmetry ==
    /\ pc = "start"
    /\ \E ps \in FlipPatternLists :
        Flipped([op |-> "cluster_by_symmetry", patterns |-> ps],
                cluster_by_symmetry(ps))

\* MultiPatternTransformer(sgram).get_pattern_for_state(state)
GetPatternForState ==
    /\ pc = "ready"
    /\ \E state \in StateInputs(sgram) :
        /\ pc' = "returned"
        /\ call' = [op |-> "get_pattern_for_state", state |-> state]
        /\ result' = Result("get_pattern_for_state",
                            Return(get_pattern_for_state(sgram, state)))
        /\ error' = ""
        /\ sgram' = after_get_all_patterns(sgram)
        /\ UNCHANGED <<state_map, patterns, pattern, current_state>>

\* transformer.get_state_distance(current_state, to_state, pattern)
GetStateDistance ==
    /\ pc \in {"chosen", "stepped"}
    /\ \E to_state \in ToStateInputs(sgram, pattern) :
        Called([op |-> "get_state_distance", from_state |-> current_state[1],
                to_state |-> to_state, pattern |-> pattern],
               get_state_distance(sgram, current_state[1], to_state, pattern))

\* transformer.trace_path(current_state, steps, pattern, reverse)
TracePath ==
    /\ pc \in {"chosen", "stepped"}
    /\ \E steps \in 0..MaxSteps : \E reverse \in BOOLEAN :
        Called([op |-> "trace_path", start_state |-> current_state[1],
                steps |-> steps, pattern |-> pattern, reverse |-> reverse],
               trace_path(sgram, state_map, current_state[1], steps, pattern, reverse))

Next ==
    \/ CreateSGram
    \/ CreateNGram1st
    \/ CreateNGram3rd
    \/ CreateNGram2DCatalan
    \/ CreateNGram3DCatalan
    \/ StateTransformerInit
    \/ FractionPatternAnalyzerInit
    \/ GetCycleLength
    \/ GetTransitionTable
    \/ GetPatternOverlap
    \/ ComputeValue
    \/ GetPatternsContainingState
    \/ AnalyzeCycleRelationships
    \/ GetStateDistribution
    \/ FindUniqueStates
    \/ ChooseStart
    \/ ResolveStep
    \/ InformStep
    \/ GetStateDistance
    \/ TracePath
    \/ FindCommonPatterns
    \/ GetPatternForState
    \/ ComparePrimaryPatterns
    \/ ApplyFlip
    \/ ClusterBySymmetry

Spec == Init /\ [][Next]_vars

----------------------------------------------------------------------------
\* What the properties speak of.

\* An entry has been created.
HasEntry == sgram # NoEntry

\* The cycles an entry stores under a label: in its primary set, in its
\* additional factors, or in both.
CyclesOfLabel(sg, l) ==
    {sg.fraction_patterns[i].v : i \in {j \in 1..Len(sg.fraction_patterns) :
                                          sg.fraction_patterns[j].k = l}}
    \cup
    {sg.additional_factors[i].v : i \in {j \in 1..Len(sg.additional_factors) :
                                           sg.additional_factors[j].k = l}}

\* The label a call is made under: the one given, or the first-inserted label
\* of the primary set when none is given (None when there is none).
LabelUsed(sg, pat) ==
    IF pat = None /\ sg.fraction_patterns # << >>
    THEN sg.fraction_patterns[1].k
    ELSE pat

\* v is a value of a cycle stored under the label.
InCycle(sg, l, v) == \E c \in CyclesOfLabel(sg, l) : contains(c, v)

\* The cycle of a label: its primary-set cycle, or its additional-factor
\* cycle when the primary set has none.
CycleOf(sg, l) ==
    IF dict_has(sg.fraction_patterns, l)
    THEN dict_get(sg.fraction_patterns, l)[1]
    ELSE dict_get(sg.additional_factors, l)[1]

\* The 0-based position of a value in a cycle.
PositionIn(c, v) == (CHOOSE i \in 1..Len(c) : c[i] = v) - 1

\* The last call was a resolve or inform step made from a value of the cycle
\* of a label the entry has.
StepInCycle ==
    /\ HasEntry
    /\ call.op \in {"resolve", "inform"}
    /\ call.pattern \in Labels(sgram)
    /\ InCycle(sgram, call.pattern, call.state)

\* The last call was trace_path from a value of the cycle of a label the
\* entry has.
TraceInCycle ==
    /\ HasEntry
    /\ call.op = "trace_path"
    /\ call.pattern \in Labels(sgram)
    /\ InCycle(sgram, call.pattern, call.start_state)

----------------------------------------------------------------------------
\* C1. Inverse laws: in every quadratic entry, for every label and every value
\* v of the label's cycle, resolve(v, label) and inform(v, label) succeed and
\* inform(resolve(v, label), label) = v, resolve(inform(v, label), label) = v.
C1_InverseLaws ==
    (StepInCycle /\ sgram.family = "2nd") =>
        /\ error = ""
        /\ call.op = "resolve" =>
            inform(sgram, result.val[1], call.pattern) = Return(call.state)
        /\ call.op = "inform" =>
            resolve(sgram, state_map, result.val[1], call.pattern) = Return(call.state)

\* C2. Closure: for every label with L = get_cycle_length(label) and every
\* value v of the label's cycle, resolve applied L times from v succeeds and
\* ends at v.
C2_Closure ==
    (/\ TraceInCycle
     /\ ~call.reverse
     /\ call.steps = get_cycle_length(sgram, call.pattern)) =>
        /\ error = ""
        /\ result.val[1][call.steps + 1] = call.start_state

\* C3. Totality along a run: a resolve or inform step made from a value of the
\* label's cycle raises nothing and yields a value of that cycle again, so a
\* run that starts in the cycle stays in it and never fails.
C3_TotalAlongRun ==
    StepInCycle =>
        /\ error = ""
        /\ InCycle(sgram, call.pattern, result.val[1])

\* C4. Single directed cycle: from any value v of a label's cycle of length L,
\* the L - 1 resolve steps after v visit every value of the cycle, and inform
\* leads back along each of these steps.
C4_SingleDirectedCycle ==
    (/\ TraceInCycle
     /\ ~call.reverse
     /\ call.steps = Len(CycleOf(sgram, call.pattern)) - 1) =>
        /\ error = ""
        /\ set_of(result.val[1]) = set_of(CycleOf(sgram, call.pattern))
        /\ \A i \in 1..call.steps :
            inform(sgram, result.val[1][i + 1], call.pattern) = Return(result.val[1][i])


----------------------------------------------------------------------------
C6_TracePathShape ==
    TraceInCycle =>
        /\ error = ""
        /\ Len(result.val[1]) = call.steps + 1
        /\ result.val[1][1] = call.start_state
        /\ \A i \in 1..call.steps :
            IF call.reverse
            THEN inform(sgram, result.val[1][i], call.pattern)
                    = Return(result.val[1][i + 1])
            ELSE resolve(sgram, state_map, result.val[1][i], call.pattern)
                    = Return(result.val[1][i + 1])

\* C7. The scenario on quadratic index 3: the first cycle of its primary set
\* is "1/7" -> [1, 4, 2, 8, 5, 7]; with no label given resolve(1) = 4,
\* inform(4) = 1 and trace_path(1, 5) forward = [1, 4, 2, 8, 5, 7].
C7_Scenario ==
    (HasEntry /\ sgram.family = "2nd" /\ sgram.index = 3) =>
        /\ sgram.fraction_patterns[1] = [k |-> "1/7", v |-> <<1, 4, 2, 8, 5, 7>>]
        /\ (call.op = "resolve" /\ call.state = 1 /\ call.pattern = None) =>
            (error = "" /\ result.val = <<4>>)
        /\ (call.op = "inform" /\ call.state = 4 /\ call.pattern = None) =>
            (error = "" /\ result.val = <<1>>)
        /\ (/\ call.op = "trace_path"
            /\ call.start_state = 1
            /\ call.steps = 5
            /\ call.pattern = None
            /\ ~call.reverse) =>
            (error = "" /\ result.val = << <<1, 4, 2, 8, 5, 7>> >>)

\* C7 happens: on quadratic index 3 the path of 5 forward steps from 1, with
\* no label given, has been traced.
C7_Witness ==
    /\ pc = "returned"
    /\ sgram.family = "2nd"
    /\ sgram.index = 3
    /\ call.op = "trace_path"
    /\ call.start_state = 1
    /\ call.steps = 5
    /\ call.pattern = None
    /\ ~call.reverse
    /\ Len(result.val[1]) = 6

\* C8. Value not in cycle: resolve, inform and get_state_distance raise and
\* return no value when the value given (either value, for the distance) is
\* in no cycle of the label used, even if another cycle of the entry has it.
C8_ValueNotInCycle ==
    /\ (/\ HasEntry
        /\ call.op \in {"resolve", "inform"}
        /\ LabelUsed(sgram, call.pattern) \in Labels(sgram)
        /\ ~InCycle(sgram, LabelUsed(sgram, call.pattern), call.state)) =>
            (error # "" /\ result.val = << >>)
    /\ (/\ HasEntry
        /\ call.op = "get_state_distance"
        /\ LabelUsed(sgram, call.pattern) \in Labels(sgram)
        /\ \/ ~InCycle(sgram, LabelUsed(sgram, call.pattern), call.from_state)
           \/ ~InCycle(sgram, LabelUsed(sgram, call.pattern), call.to_state)) =>
            (error # "" /\ result.val = << >>)

\* C8 happens: resolve was called under a label of the entry with a value that
\* only another cycle of the entry has, and raised.
C8_Witness ==
    /\ pc = "raised"
    /\ call.op = "resolve"
    /\ call.pattern \in Labels(sgram)
    /\ call.state \in AllStates(sgram)
    /\ ~InCycle(sgram, call.pattern, call.state)
    /\ error = "Pattern not applicable to state"

\* The last call was given a label that the entry has neither in its primary
\* set nor in its additional factors.
UnknownLabelCall ==
    /\ HasEntry
    /\ \/ /\ call.op \in {"resolve", "inform", "get_state_distance",
                          "get_cycle_length", "get_transition_table"}
          /\ call.pattern # None
          /\ call.pattern \notin Labels(sgram)
       \/ /\ call.op = "get_pattern_overlap"
          /\ \/ call.divisor1 \notin Labels(sgram)
             \/ call.divisor2 \notin Labels(sgram)

\* C9 as stated. Unknown label: resolve, inform, get_state_distance,
\* get_cycle_length, get_transition_table and get_pattern_overlap all fail
\* when given a label the entry does not have.
C9_UnknownLabelFails == UnknownLabelCall => error # ""

\* C9 as amended. Unknown label: given a label the entry does not have,
\* resolve, inform and get_state_distance raise and return no value, while
\* get_cycle_length returns 0, get_transition_table an empty table and
\* get_pattern_overlap an empty list, none of them raising.
C9_UnknownLabelOutcome ==
    UnknownLabelCall =>
        /\ call.op \in {"resolve", "inform", "get_state_distance"} =>
            (error # "" /\ result.val = << >>)
        /\ call.op = "get_cycle_length" => (error = "" /\ result.val = <<0>>)
        /\ call.op = "get_transition_table" => (error = "" /\ result.val = << << >> >>)
        /\ call.op = "get_pattern_overlap" => (error = "" /\ result.val = << << >> >>)

\* C9 happens: get_cycle_length was called with a label the entry does not
\* have, and returned.
C9_Witness ==
    /\ pc = "returned"
    /\ call.op = "get_cycle_length"
    /\ call.pattern # None
    /\ call.pattern \notin Labels(sgram)
    /\ result.val = <<0>>

\* C10. Default cycle: with no label given, resolve, inform and
\* get_state_distance end exactly as the same call does with the
\* first-inserted label of the primary set, and raise "No patterns available"
\* when the primary set is empty.
C10_DefaultCycle ==
    (/\ HasEntry
     /\ call.op \in {"resolve", "inform", "get_state_distance"}
     /\ call.pattern = None) =>
        IF sgram.fraction_patterns = << >>
        THEN error = "No patterns available" /\ result.val = << >>
        ELSE LET first == sgram.fraction_patterns[1].k
                 outcome == [err |-> error, val |-> result.val]
             IN /\ call.op = "resolve" =>
                    outcome = resolve(sgram, state_map, call.state, first)
                /\ call.op = "inform" =>
                    outcome = inform(sgram, call.state, first)
                /\ call.op = "get_state_distance" =>
                    outcome = get_state_distance(sgram, call.from_state,
                                                 call.to_state, first)

\* C10 happens: resolve was called with no label on the cubic entry of index
\* 0, whose primary set is empty, and raised.
C10_Witness ==
    /\ pc = "raised"
    /\ sgram.family = "3rd"
    /\ sgram.index = 0
    /\ sgram.fraction_patterns = << >>
    /\ call.op = "resolve"
    /\ call.pattern = None
    /\ error = "No patterns available"

----------------------------------------------------------------------------
\* The defined domain of the family a factory call creates entries of.
Domain(op) ==
    IF op \in {"create_ngram_2d_catalan", "create_ngram_3d_catalan"}
    THEN 0..(Len(A000081_SEQUENCE) - 1)
    ELSE 0..11

\* C11. Index domain: a factory creates an entry only for an index of its
\* family's domain (0..11 for the linear, quadratic and cubic families, 0..20
\* for the two table-backed ones); for every other index, negative ones
\* included, it fails and creates nothing.
C11_IndexDomain ==
    pc \in {"created", "failed"} =>
        IF call.index \in Domain(call.op)
        THEN error = "" /\ pc = "created" /\ sgram.index = call.index
        ELSE error # "" /\ pc = "failed" /\ sgram = NoEntry

\* C12. compute_value of a table-backed family (rooted trees, unlabeled
\* trees) fails, returning no value, when the index exceeds the table's
\* recorded length (index 21 and above).
C12_ComputeValueOutOfRange ==
    (/\ HasEntry
     /\ call.op = "compute_value"
     /\ sgram.family \in {"2d", "3d"}
     /\ call.n >= Len(A000081_SEQUENCE)) =>
        (error # "" /\ result.val = << >>)

\* The value of a family at index n, by the family's closed form or table.
ValueOf(family, n) ==
    CASE family = "1st" -> 1 + (1 + n)
      [] family = "3rd" -> 1 + (1 + n) * (1 + n) * (1 + n)
      [] family = "2d" -> A000081_SEQUENCE[n + 1]
      [] family = "3d" -> A000055_SEQUENCE[n + 1]

\* The supported range of a family that defines compute_value.
SupportedRange(family) ==
    IF family \in {"2d", "3d"} THEN 0..(Len(A000081_SEQUENCE) - 1) ELSE 0..11

\* C13. Value correctness: for an entry created at an index of its family's
\* supported range, the stored value equals compute_value(index), and
\* compute_value(n) is 1+(1+n) for the linear family, 1+(1+n)^3 for the cubic
\* one (126 at 4) and table[n] for the table-backed ones (rooted trees 9 at
\* 5, unlabeled trees 6 at 6).
C13_ValueCorrect ==
    /\ (/\ HasEntry
        /\ sgram.family # "2nd"
        /\ sgram.index \in SupportedRange(sgram.family)) =>
            /\ compute_value(sgram, sgram.index) = Return(sgram.sequence_value)
            /\ sgram.sequence_value = ValueOf(sgram.family, sgram.index)
    /\ (/\ HasEntry
        /\ call.op = "compute_value"
        /\ call.n \in SupportedRange(sgram.family)) =>
            /\ error = ""
            /\ result.val = << ValueOf(sgram.family, call.n) >>
            /\ (sgram.family = "3rd" /\ call.n = 4) => result.val = <<126>>
            /\ (sgram.family = "2d" /\ call.n = 5) => result.val = <<9>>
            /\ (sgram.family = "3d" /\ call.n = 6) => result.val = <<6>>

\* C13 happens: compute_value(4) was called on a cubic entry created in its
\* supported range, and returned 126.
C13_Witness ==
    /\ pc = "returned"
    /\ sgram.family = "3rd"
    /\ sgram.index \in 1..11
    /\ sgram.sequence_value = 1 + (1 + sgram.index) * (1 + sgram.index) * (1 + sgram.index)
    /\ call.op = "compute_value"
    /\ call.n = 4
    /\ result.val = <<126>>

\* The positions, in the analyzer's pattern list, of the cycles that hold a
\* state.
Holding(state) ==
    {i \in 1..Len(patterns) : state \in set_of(patterns[i].sequence)}

\* The k-th smallest member of a set of positions.
Kth(positions, k) ==
    CHOOSE i \in positions : Cardinality({j \in positions : j < i}) = k - 1

\* C14. get_patterns_containing_state returns one entry for each cycle of the
\* entry that holds the state and none for any other, in insertion order
\* (primary set first, then additional factors); for quadratic index 3 and
\* state 8 it returns exactly the cycle labelled "1/7".
C14_PatternsContaining ==
    (HasEntry /\ call.op = "get_patterns_containing_state") =>
        LET found == result.val[1]
            holding == Holding(call.state)
        IN /\ error = ""
           /\ Len(found) = Cardinality(holding)
           /\ \A k \in 1..Len(found) : found[k] = patterns[Kth(holding, k)]
           /\ \A k \in 1..Len(found) : \A m \in (k + 1)..Len(found) :
                found[k].is_additional_factor => found[m].is_additional_factor
           /\ (sgram.family = "2nd" /\ sgram.index = 3 /\ call.state = 8) =>
                [k \in 1..Len(found) |-> found[k].divisor] = <<"1/7">>

\* C14 happens: the state asked for is held by a cycle of the primary set and
\* by an additional factor, and both were returned, in that order.
C14_Witness ==
    /\ pc = "returned"
    /\ call.op = "get_patterns_containing_state"
    /\ Len(result.val[1]) >= 2
    /\ ~result.val[1][1].is_additional_factor
    /\ result.val[1][Len(result.val[1])].is_additional_factor

\* C15. get_pattern_overlap(l1, l2), for two labels of an entry, returns in
\* strictly ascending order exactly the states that both labels' cycles hold,
\* and get_pattern_overlap(l2, l1) returns the same list.
C15_Overlap ==
    (/\ HasEntry
     /\ call.op = "get_pattern_overlap"
     /\ call.divisor1 \in Labels(sgram)
     /\ call.divisor2 \in Labels(sgram)) =>
        LET overlap == result.val[1]
        IN /\ error = ""
           /\ \A k \in 1..(Len(overlap) - 1) : overlap[k] < overlap[k + 1]
           /\ set_of(overlap) = set_of(CycleOf(sgram, call.divisor1))
                                    \cap set_of(CycleOf(sgram, call.divisor2))
           /\ get_pattern_overlap(patterns, call.divisor2, call.divisor1) = overlap

\* C15 happens: two different labels were given whose cycles share at least
\* two states.
C15_Witness ==
    /\ pc = "returned"
    /\ call.op = "get_pattern_overlap"
    /\ call.divisor1 # call.divisor2
    /\ Len(result.val[1]) >= 2

\* C16. get_state_distribution maps each state that some cycle of the entry
\* holds to the number of the entry's cycles holding it, which is the number
\* of entries get_patterns_containing_state returns for it, and has no key
\* for any other state.
C16_StateDistribution ==
    (HasEntry /\ call.op = "get_state_distribution") =>
        LET distribution == result.val[1]
        IN /\ error = ""
           /\ set_of(dict_keys(distribution)) = AllStates(sgram)
           /\ Len(distribution) = Cardinality(AllStates(sgram))
           /\ \A i \in 1..Len(distribution) :
                /\ distribution[i].v = Cardinality(Holding(distribution[i].k))
                /\ distribution[i].v =
                     Len(get_patterns_containing_state(patterns, distribution[i].k))

\* C16 happens: the distribution of an entry was taken in which some state is
\* held by two cycles or more.
C16_Witness ==
    /\ pc = "returned"
    /\ call.op = "get_state_distribution"
    /\ \E i \in 1..Len(result.val[1]) : result.val[1][i].v >= 2

\* The last call was analyze_cycle_relationships.
Analyzed == HasEntry /\ call.op = "analyze_cycle_relationships"

\* C17 as stated. For quadratic index 3, analyze_cycle_relationships reports
\* a common_divisor of 2, the GCD of the lengths 6 and 2 of the two cycles of
\* its primary set.
C17_GcdOfPrimaryLengths ==
    (Analyzed /\ sgram.family = "2nd" /\ sgram.index = 3) =>
        result.val[1].common_divisor = 2

\* C17 as amended. For quadratic index 3, analyze_cycle_relationships reports
\* a common_divisor of 1: it is the GCD of the lengths 6, 2 and 1 of all three
\* cycles of the index, the additional factor "1/1" included.
C17_GcdOfAllLengths ==
    (Analyzed /\ sgram.family = "2nd" /\ sgram.index = 3) =>
        /\ error = ""
        /\ result.val[1].cycle_lengths =
             << [k |-> "1/7", v |-> 6], [k |-> "1/3", v |-> 2], [k |-> "1/1", v |-> 1] >>
        /\ result.val[1].common_divisor = 1

\* C17 happens: the cycles of quadratic index 3 were analyzed.
C17_Witness ==
    /\ pc = "returned"
    /\ call.op = "analyze_cycle_relationships"
    /\ sgram.family = "2nd"
    /\ sgram.index = 3
    /\ Len(result.val[1].cycle_lengths) = 3

\* The lengths of all cycles of an entry, primary set and additional factors.
AllLengths(sg) ==
    {Len(sg.fraction_patterns[i].v) : i \in 1..Len(sg.fraction_patterns)}
    \cup {Len(sg.additional_factors[i].v) : i \in 1..Len(sg.additional_factors)}

\* The greatest common divisor of a non-empty set of naturals (0 when all
\* are 0).
GcdOfSet(S) ==
    IF S \subseteq {0} THEN 0
    ELSE CHOOSE d \in 1..(CHOOSE m \in S : \A x \in S : x <= m) :
            /\ \A x \in S : x % d = 0
            /\ \A e \in (d + 1)..(CHOOSE m \in S : \A x \in S : x <= m) :
                \E x \in S : x % e # 0

\* C18. analyze_cycle_relationships aggregates over all cycles of the entry:
\* max_cycle_length and min_cycle_length are the greatest and the least length
\* among all its cycles (primary set and additional factors), common_divisor
\* is the GCD of these lengths, and total_patterns is the number of entries of
\* cycle_lengths.
C18_Aggregates ==
    Analyzed =>
        LET stats == result.val[1]
            all == AllLengths(sgram)
        IN /\ error = ""
           /\ all # {} =>
                /\ \A x \in all : x <= stats.max_cycle_length
                /\ stats.max_cycle_length \in all
                /\ \A x \in all : stats.min_cycle_length <= x
                /\ stats.min_cycle_length \in all
                /\ stats.common_divisor = GcdOfSet(all)
           /\ stats.total_patterns = Len(stats.cycle_lengths)

\* C19. On an entry that has no cycle at all, analyze_cycle_relationships
\* returns without error a GCD of 1, a maximum of 0, a minimum of 0 and a
\* count of 0.
C19_EmptyStatistics ==
    (Analyzed /\ sgram.fraction_patterns = << >> /\ sgram.additional_factors = << >>) =>
        /\ error = ""
        /\ result.val = << [ cycle_lengths |-> << >>, common_divisor |-> 1,
                             max_cycle_length |-> 0, min_cycle_length |-> 0,
                             total_patterns |-> 0 ] >>

\* C19 happens: the cubic entry of index 0, which has no cycle, was analyzed.
C19_Witness ==
    /\ pc = "returned"
    /\ call.op = "analyze_cycle_relationships"
    /\ sgram.family = "3rd"
    /\ sgram.index = 0
    /\ patterns = << >>
    /\ result.val[1].total_patterns = 0

\* The states of every cycle of the entry but the cycle of label l.
StatesElsewhere(l) ==
    LET own == CHOOSE i \in 1..Len(patterns) :
                    /\ patterns[i].divisor = l
                    /\ \A j \in 1..(i - 1) : patterns[j].divisor # l
    IN UNION {set_of(patterns[j].sequence) : j \in (1..Len(patterns)) \ {own}}

\* C20. find_unique_states maps every label of the entry to the ascending
\* list of exactly the states that are in the label's cycle and in no other
\* cycle of the entry.
C20_UniqueStates ==
    (HasEntry /\ call.op = "find_unique_states") =>
        LET unique == result.val[1]
        IN /\ error = ""
           /\ set_of(dict_keys(unique)) = Labels(sgram)
           /\ \A l \in Labels(sgram) :
                LET states == dict_get(unique, l)[1]
                IN /\ \A k \in 1..(Len(states) - 1) : states[k] < states[k + 1]
                   /\ set_of(states) = set_of(CycleOf(sgram, l)) \ StatesElsewhere(l)

\* C20 happens: on quadratic index 3 every state belongs to one cycle only,
\* and the states of "1/7", stored as 1 4 2 8 5 7, come back ascending.
C20_Witness ==
    /\ pc = "returned"
    /\ call.op = "find_unique_states"
    /\ sgram.family = "2nd"
    /\ sgram.index = 3
    /\ dict_get(result.val[1], "1/7") = << <<1, 2, 4, 5, 7, 8>> >>
    /\ dict_get(result.val[1], "1/3") = << <<3, 6>> >>

----------------------------------------------------------------------------
\* Queries over several entries, and the shape of the stored cycles.

\* The indices, among those of the list passed, whose entry has the label.
Occurs(l) ==
    {i \in set_of(call.indices) : l \in Labels(create_sgram(i).val[1])}

\* C21. find_common_patterns returns a pair (label, indices) exactly for the
\* labels that occur in at least two different indices of the list; indices
\* lists each index in which the label occurs, once; the pairs are in
\* descending order of the number of occurrences.
C21_CommonLabels ==
    (pc = "compared" /\ call.op = "find_common_patterns") =>
        LET common == result.val[1]
            all_labels == UNION {Labels(create_sgram(i).val[1]) : i \in set_of(call.indices)}
        IN /\ {common[n][1] : n \in 1..Len(common)}
                = {l \in all_labels : Cardinality(Occurs(l)) >= 2}
           /\ \A n \in 1..Len(common) : \A m \in 1..Len(common) :
                common[n][1] = common[m][1] => n = m
           /\ \A n \in 1..Len(common) :
                /\ set_of(common[n][2]) = Occurs(common[n][1])
                /\ Len(common[n][2]) = Cardinality(Occurs(common[n][1]))
           /\ \A n \in 1..(Len(common) - 1) :
                Len(common[n][2]) >= Len(common[n + 1][2])

\* The analyzer's patterns exist: the session has built the analyzer.
Analyzing == HasEntry /\ pc \notin {"created", "transformer"}

\* The positions of the analyzer's patterns marked primary.
Primaries == {i \in 1..Len(patterns) : patterns[i].is_primary}

\* C22. Primary designation: the analyzer marks exactly one cycle as primary
\* when the primary set is not empty, its first-inserted entry, and none when
\* it is empty; no cycle is both primary and additional factor; every
\* cycle_length is the length of the sequence; with no label given the
\* transformer's get_cycle_length, get_transition_table, resolve and inform
\* work on the primary cycle; and compare_primary_patterns reports, for every
\* index of its list, label, length and sequence of that same cycle.
C22_PrimaryDesignation ==
    /\ Analyzing =>
        /\ Primaries = IF sgram.fraction_patterns = << >> THEN {} ELSE {1}
        /\ sgram.fraction_patterns # << >> =>
            /\ patterns[1].divisor = sgram.fraction_patterns[1].k
            /\ patterns[1].sequence = sgram.fraction_patterns[1].v
        /\ \A i \in 1..Len(patterns) :
            /\ ~(patterns[i].is_primary /\ patterns[i].is_additional_factor)
            /\ patterns[i].cycle_length = Len(patterns[i].sequence)
    /\ (Analyzing /\ Primaries # {} /\ "pattern" \in DOMAIN call) =>
        LET primary == patterns[CHOOSE i \in Primaries : TRUE].sequence
            n == Len(primary)
            at == PositionIn(primary, call.state)
        IN /\ (call.op = "get_cycle_length" /\ call.pattern = None) =>
                result.val = <<n>>
           /\ (call.op = "get_transition_table" /\ call.pattern = None) =>
                set_of(dict_keys(result.val[1])) = set_of(primary)
           /\ (call.op = "resolve" /\ call.pattern = None
               /\ contains(primary, call.state)) =>
                result.val = << primary[((at + 1) % n) + 1] >>
           /\ (call.op = "inform" /\ call.pattern = None
               /\ contains(primary, call.state)) =>
                result.val = << primary[((at + n - 1) % n) + 1] >>
    /\ (pc = "compared" /\ call.op = "compare_primary_patterns") =>
        LET comparison == result.val[1]
        IN /\ set_of(dict_keys(comparison)) = set_of(call.indices)
           /\ Len(comparison) = Cardinality(set_of(call.indices))
           /\ \A i \in set_of(call.indices) :
                LET first == create_sgram(i).val[1].fraction_patterns[1]
                    reported == dict_get(comparison, i)[1]
                IN /\ reported.divisor = first.k
                   /\ reported.sequence = first.v
                   /\ reported.cycle_length = Len(first.v)

\* C22 happens: the primary cycles of the entries of index 7 and 3, passed in
\* this order, were compared.
C22_Witness ==
    /\ pc = "compared"
    /\ call.op = "compare_primary_patterns"
    /\ call.indices = <<7, 3>>
    /\ dict_keys(result.val[1]) = <<3, 7>>
    /\ dict_get(result.val[1], 3)[1].divisor = "1/7"

\* Every cycle of an entry, of its primary set and of its additional factors.
Cycles(sg) ==
    {sg.fraction_patterns[i].v : i \in 1..Len(sg.fraction_patterns)}
    \cup {sg.additional_factors[i].v : i \in 1..Len(sg.additional_factors)}

\* C23. Cycle well-formedness: every cycle of an entry created for an index
\* of its family's supported range is non-empty and holds no value twice.
C23_WellFormedCycles ==
    (HasEntry /\ sgram.index \in SupportedRange(sgram.family)) =>
        \A c \in Cycles(sgram) :
            /\ c # << >>
            /\ \A i \in 1..Len(c) : \A j \in 1..Len(c) : c[i] = c[j] => i = j

\* C23 happens: the rooted-tree entry of index 5, with the three cycles
\* 1..9, 3 6 9 and 9, was created.
C23_Witness ==
    /\ pc = "created"
    /\ sgram.family = "2d"
    /\ sgram.index = 5
    /\ Cardinality(Cycles(sgram)) = 3
    /\ <<3, 6, 9>> \in Cycles(sgram)

\* C24. Every value of every cycle of every entry a factory creates is a
\* positive integer.
C24_PositiveValues ==
    HasEntry => \A c \in Cycles(sgram) : \A i \in 1..Len(c) : c[i] >= 1

\* What the factory of a family returns for an index.
FactoryEntry(family, index) ==
    CASE family = "2nd" -> create_sgram(index)
      [] family = "1st" -> create_ngram_1st(index)
      [] family = "3rd" -> create_ngram_3rd(index)
      [] family = "2d" -> create_ngram_2d_catalan(index)
      [] family = "3d" -> create_ngram_3d_catalan(index)

\* C25. Read-only lifecycle: after any sequence of transformer and analyzer
\* operations, whether they returned or raised, the entry (primary set,
\* additional factors and every sequence) is the one its factory returned.
C25_ReadOnly ==
    HasEntry => Return(sgram) = FactoryEntry(sgram.family, sgram.index)

\* C25 happens: on the quadratic entry of index 4, whose label "1/4" is in
\* both sets, a transformer and an analyzer were built and a resolve call
\* from a value outside the cycle of its label raised.
C25_Witness ==
    /\ pc = "raised"
    /\ call.op = "resolve"
    /\ call.state = 8
    /\ call.pattern = "1/13"
    /\ sgram.family = "2nd"
    /\ sgram.index = 4
    /\ sgram.fraction_patterns = create_sgram_4.fraction_patterns
    /\ sgram.additional_factors = create_sgram_4.additional_factors

\* C26. The transition table agrees with the step operations: for a label of
\* the entry, get_transition_table(label) has exactly one row for each value
\* of the label's cycle, and the row of value v is
\* (inform(v, label), resolve(v, label)).
C26_TableAgreesWithSteps ==
    (HasEntry /\ call.op = "get_transition_table" /\ call.pattern \in Labels(sgram)) =>
        LET table == result.val[1]
            cycle == CycleOf(sgram, call.pattern)
        IN /\ error = ""
           /\ set_of(dict_keys(table)) = set_of(cycle)
           /\ Len(table) = Cardinality(set_of(cycle))
           /\ \A n \in 1..Len(table) :
                /\ Len(table[n].v) = 2
                /\ inform(sgram, table[n].k, call.pattern) = Return(table[n].v[1])
                /\ resolve(sgram, state_map, table[n].k, call.pattern)
                        = Return(table[n].v[2])

\* A pattern read from its last value to its first.
Reverse(p) == [i \in 1..Len(p) |-> p[Len(p) + 1 - i]]

\* C27. Flip canonical form: apply_flip(p) = apply_flip(reverse(p)),
\* apply_flip(apply_flip(p)) = apply_flip(p), and apply_flip(p) is p or
\* reverse(p); in cluster_by_symmetry every pattern passed is in exactly one
\* cluster, and two patterns share a cluster exactly when one is the other or
\* its reverse.
C27_FlipCanonicalForm ==
    /\ (pc = "flipped" /\ call.op = "apply_flip") =>
        LET p == call.pattern
            canonical == result.val[1]
        IN /\ canonical = apply_flip(Reverse(p))
           /\ apply_flip(canonical) = canonical
           /\ canonical \in {p, Reverse(p)}
    /\ (pc = "flipped" /\ call.op = "cluster_by_symmetry") =>
        LET ps == call.patterns
            clusters == result.val[1]
            ClustersOf(p) == {n \in 1..Len(clusters) : contains(clusters[n].v, p)}
        IN /\ \A i \in 1..Len(ps) : Cardinality(ClustersOf(ps[i])) = 1
           /\ \A i \in 1..Len(ps) : \A j \in 1..Len(ps) :
                (ClustersOf(ps[i]) \cap ClustersOf(ps[j]) # {})
                    <=> (ps[i] = ps[j] \/ ps[i] = Reverse(ps[j]))

\* C27 happens: a pattern and its reverse were clustered, under the form that
\* is the lesser of the two.
C27_Witness ==
    /\ pc = "flipped"
    /\ call.op = "cluster_by_symmetry"
    /\ call.patterns = << <<2, 1, 1>>, <<1, 1, 2>> >>
    /\ result.val[1] = << [k |-> "(1, 1, 2)", v |-> << <<2, 1, 1>>, <<1, 1, 2>> >>] >>

\* The labels of a list of analyzer patterns.
DivisorsOf(pats) == {pats[i].divisor : i \in 1..Len(pats)}

\* C28. The two membership queries agree: on a quadratic entry, for every
\* state, the labels of the patterns get_patterns_containing_state returns
\* are the labels get_pattern_for_state returns.
C28_MembershipQueriesAgree ==
    (HasEntry /\ sgram.family = "2nd") =>
        /\ call.op = "get_pattern_for_state" =>
            set_of(result.val[1])
                = DivisorsOf(get_patterns_containing_state(patterns, call.state))
        /\ call.op = "get_patterns_containing_state" =>
            DivisorsOf(result.val[1])
                = set_of(get_pattern_for_state(sgram, call.state))

\* C29. State-space partition: in the quadratic entry the factory returns for
\* index n, 2 <= n <= 11, the cycles of the primary set are pairwise disjoint and their union is
\* {1, ..., n*n - 1}, and the additional factor "1/1" holds the single value
\* n*n.
C29_Partition ==
    (pc = "created" /\ sgram.family = "2nd" /\ sgram.index \in 2..11) =>
        LET n == sgram.index
            primary == sgram.fraction_patterns
        IN /\ \A i \in 1..Len(primary) : \A j \in 1..Len(primary) :
                i # j => set_of(primary[i].v) \cap set_of(primary[j].v) = {}
           /\ UNION {set_of(primary[i].v) : i \in 1..Len(primary)} = 1..(n * n - 1)
           /\ dict_get(sgram.additional_factors, "1/1") = << <<n * n>> >>

\* C29 happens: the quadratic entry of index 11 was created, its primary set
\* covering 1..120 and its additional factor "1/1" holding 121.
C29_Witness ==
    /\ pc = "created"
    /\ sgram.family = "2nd"
    /\ sgram.index = 11
    /\ call.index = 11
    /\ AllStates(sgram) = 1..121
    /\ dict_get(sgram.additional_factors, "1/1") = << <<121>> >>

\* C30. trace_path returns only paths within the selected cycle: called from
\* a start value that is not in the cycle of the label used, it raises an
\* error, for every number of steps from 0 on, and returns no path.
C30_TraceOutsideCycleRaises ==
    (/\ HasEntry
     /\ call.op = "trace_path"
     /\ ~InCycle(sgram, LabelUsed(sgram, call.pattern), call.start_state)) =>
        (error # "" /\ result.val = << >>)
====
